---- MODULE Spec2Model ----
(***************************************************************************)
(* Transaction lifecycle client of ghost-eth (package eth, ghostClient):   *)
(* SignTransaction, SendTransaction and WaitForTransaction against an      *)
(* abstract node (the EthClient interface).                                *)
(*                                                                         *)
(* Conventions                                                             *)
(*  - a nil *big.Int is NIL (-1); every real amount is >= 0.               *)
(*  - fee amounts (wei per gas) are counted in units of 5*10^8 wei, the    *)
(*    largest unit in which all four fee defaults are whole numbers, so    *)
(*    that they fit the model checker's integers: GWEI is 2 units.         *)
(*  - a float64 gas buffer b is the rational b*100/100 (BufferDen = 100);  *)
(*    uint64(float64(g) * b) is the integer quotient (g * b100) \div 100.  *)
(*  - header gas limits are far below 2^63, so header.GasLimit * 2 does    *)
(*    not wrap in uint64 and is modelled without a modulus.                *)
(*  - likewise the chain id a node reports fits int64, a block number    *)
(*    fits uint64, and a configured number of seconds is below the         *)
(*    9223372036 from which time.Duration(s) * time.Second wraps; the      *)
(*    conversions Int64(), Uint64() and to time.Duration are exact on      *)
(*    these ranges, and durations are counted in seconds.                  *)
(*  - a node call is answered by a response record r.<site>; st = "unused" *)
(*    means the call has not been answered yet.                            *)
(***************************************************************************)
EXTENDS Integers, Sequences, FiniteSets, TLC

VARIABLES
    chainId,    \* ghostClient.chainId, recorded at construction
    env,        \* process environment read by the config getters
    nodeNonce,  \* node: pending nonce of every address
    tx,         \* the caller's intent (*Transaction), mutated in place
    txIn,       \* the intent as it was when the last SignTransaction began
    signed,     \* result of the last SignTransaction (NoTx when nil)
    signErr,    \* error of the last SignTransaction ("" when nil)
    receipt,    \* result of the last SendTransaction (NoReceipt when nil)
    sendErr,    \* error of the last SendTransaction ("" when nil)
    op,         \* the last public operation that ran
    calls,      \* node calls issued by the last step, in order
    nodeReceipt,  \* node: receipt of the awaited hash (NoReceipt: not mined)
    wstate,     \* WaitForTransaction: idle, waiting, confirmed, timed-out,
                \* failed
    now,        \* seconds since waitForTransaction created its two timers
    timeoutReady, \* timeoutChan holds a value
    tickReady,  \* ticker.C holds a tick (the channel buffers one)
    lookups,    \* receipt lookups made by the poll loop so far
    wres,       \* result of WaitForTransaction (NoReceipt when nil)
    werr,       \* error of WaitForTransaction (NoErr when nil)
    account,    \* the *Account given to NewGhostClient, kept by the client
    ctx,        \* ghostClient.ctx: "background", or "nil"
    conn,       \* the node connection behind ghostClient.client
    returned,   \* what the last constructor, receipt or config call returned
    reps,       \* how many times in a row the last operation has been called
    nodeTx,     \* node: the transaction a caller asks the receipt of
    inflight,   \* the SignTransaction calls of concurrent callers: each
                \* one's position, intent and result
    prev        \* what the SignTransaction call before the last one, on
                \* the same intent, returned and asked (NoPrev: none)

signVars == <<chainId, env, nodeNonce, tx, txIn, signed, signErr, receipt,
              sendErr>>
waitVars == <<nodeReceipt, wstate, now, timeoutReady, tickReady, lookups,
              wres, werr>>
clientVars == <<account, ctx, conn, returned, reps, nodeTx>>
sessionVars == <<inflight, prev>>
vars == <<signVars, op, calls, waitVars, clientVars, sessionVars>>

----------------------------------------------------------------------------
(* Bounds of the model *)

MaxEstimate == 5
MaxCallSeconds == 1

----------------------------------------------------------------------------
(* Values *)

NIL == -1

AccountAddr == "a1"
OtherAddr == "a2"
Addrs == {AccountAddr, OtherAddr}
Recipients == {"b1"}

BufferDen == 100

GWEI == 2
DEFAULT_PRIORITY_FEE_MAINNET == 2 * GWEI
DEFAULT_PRIORITY_FEE_BASE == 1 * GWEI
DEFAULT_PRIORITY_FEE_OTHER == (15 * GWEI) \div 10
DEFAULT_MAX_FEE_PER_GAS == 500 * GWEI

envGasLimitBufferSimple == "1.2"
envGasLimitBufferComplex == "1.4"
envMaxFeePerGas == "ETH_MAX_FEE_PER_GAS"
envPriorityFeeMainnet == "ETH_PRIORITY_FEE_MAINNET"
envPriorityFeeBase == "ETH_PRIORITY_FEE_BASE"
envPriorityFeeDefault == "ETH_PRIORITY_FEE_DEFAULT"
envTransactionTimeoutSeconds == "ETH_TRANSACTION_TIMEOUT_SECONDS"
envTransactionTickerSeconds == "ETH_TRANSACTION_TICKER_SECONDS"

DEFAULT_TRANSACTION_TIMEOUT_SECONDS == 300
DEFAULT_TRANSACTION_TICKER_SECONDS == 3

\* the names under which the README documents the two gas buffers
docGasLimitBufferSimple == "ETH_GAS_LIMIT_BUFFER_SIMPLE"
docGasLimitBufferComplex == "ETH_GAS_LIMIT_BUFFER_COMPLEX"

EnvNames == {envGasLimitBufferSimple, envGasLimitBufferComplex,
             envMaxFeePerGas, envPriorityFeeMainnet, envPriorityFeeBase,
             envPriorityFeeDefault, envTransactionTimeoutSeconds,
             envTransactionTickerSeconds, docGasLimitBufferSimple,
             docGasLimitBufferComplex}

\* one environment variable: unset (the empty string), or a string that
\* parses to val, or a string that does not parse
Unset == [set |-> FALSE, ok |-> FALSE, val |-> 0]
Str(v) == [set |-> TRUE, ok |-> TRUE, val |-> v]
Garbage == [set |-> TRUE, ok |-> FALSE, val |-> 0]

EnvEmpty == [n \in EnvNames |-> Unset]
EnvTuned ==
    [n \in EnvNames |->
        CASE n = envGasLimitBufferSimple -> Str(150)
          [] n = envGasLimitBufferComplex -> Str(250)
          [] n = envMaxFeePerGas -> Str(20)
          [] n = envPriorityFeeMainnet -> Str(5)
          [] n = envPriorityFeeBase -> Str(6)
          [] n = envPriorityFeeDefault -> Str(7)
          [] OTHER -> Unset]
Envs == {EnvEmpty, EnvTuned}

----------------------------------------------------------------------------
(* Configuration getters *)

GasLimitBufferSimple(e) ==
    LET v == e[envGasLimitBufferSimple]
    IN  IF ~v.set THEN 110
        ELSE IF ~v.ok THEN 110
        ELSE IF v.val < 50 \/ v.val > 300 THEN 110
        ELSE v.val

GasLimitBufferComplex(e) ==
    LET v == e[envGasLimitBufferComplex]
    IN  IF ~v.set THEN 120
        ELSE IF ~v.ok THEN 120
        ELSE IF v.val < 50 \/ v.val > 300 THEN 120
        ELSE v.val

MaxFeePerGas(e) ==
    LET v == e[envMaxFeePerGas]
    IN  IF ~v.set THEN DEFAULT_MAX_FEE_PER_GAS
        ELSE IF ~v.ok THEN DEFAULT_MAX_FEE_PER_GAS
        ELSE v.val

PriorityFeeMainnet(e) ==
    LET v == e[envPriorityFeeMainnet]
    IN  IF ~v.set THEN DEFAULT_PRIORITY_FEE_MAINNET
        ELSE IF ~v.ok THEN DEFAULT_PRIORITY_FEE_MAINNET
        ELSE v.val

PriorityFeeBase(e) ==
    LET v == e[envPriorityFeeBase]
    IN  IF ~v.set THEN DEFAULT_PRIORITY_FEE_BASE
        ELSE IF ~v.ok THEN DEFAULT_PRIORITY_FEE_BASE
        ELSE v.val

PriorityFeeDefault(e) ==
    LET v == e[envPriorityFeeDefault]
    IN  IF ~v.set THEN DEFAULT_PRIORITY_FEE_OTHER
        ELSE IF ~v.ok THEN DEFAULT_PRIORITY_FEE_OTHER
        ELSE v.val

TransactionTimeoutSeconds(e) ==
    LET v == e[envTransactionTimeoutSeconds]
    IN  IF ~v.set THEN DEFAULT_TRANSACTION_TIMEOUT_SECONDS
        ELSE IF ~v.ok \/ v.val <= 0 THEN DEFAULT_TRANSACTION_TIMEOUT_SECONDS
        ELSE v.val

\* TransactionTickerSeconds with a configured zero accepted
TransactionTickerSeconds_zeroAccepted(e) ==
    LET v == e[envTransactionTickerSeconds]
    IN  IF ~v.set THEN DEFAULT_TRANSACTION_TICKER_SECONDS
        ELSE IF ~v.ok \/ v.val < 0 THEN DEFAULT_TRANSACTION_TICKER_SECONDS
        ELSE v.val

TransactionTickerSeconds(e) ==
    LET v == e[envTransactionTickerSeconds]
    IN  IF ~v.set THEN DEFAULT_TRANSACTION_TICKER_SECONDS
        ELSE IF ~v.ok \/ v.val <= 0 THEN DEFAULT_TRANSACTION_TICKER_SECONDS
        ELSE v.val

----------------------------------------------------------------------------
(* The node (EthClient) and its answers *)

Estimates == 0 .. MaxEstimate
GasPrices == {3, 2000}

\* latest headers the node may report: block gas limit and base fee
Header(g, b) == [GasLimit |-> g, BaseFee |-> b]
Headers == {Header(0, NIL), Header(6, 1), Header(9, 498), Header(9, 499)}

Unused == [st |-> "unused"]
Failed == [st |-> "err"]
Ok(v) == [st |-> "ok", val |-> v]

Sites == {"nonce", "estimate", "capHeader", "feeHeader", "gasPrice"}

\* what the node may answer to the call made at a site
Answers(site) ==
    {Failed} \cup
    CASE site = "nonce" -> {Ok(0)}
      [] site = "estimate" -> {Ok(e) : e \in Estimates}
      [] site = "capHeader" -> {Ok(h) : h \in Headers}
      [] site = "feeHeader" -> {Ok(h) : h \in Headers}
      [] site = "gasPrice" -> {Ok(p) : p \in GasPrices}

NoAnswers == [s \in Sites |-> Unused]

Call(name, site, arg, ret) ==
    [name |-> name, site |-> site, arg |-> arg, ret |-> ret]

----------------------------------------------------------------------------
(* Errors *)

ErrNonce == "failed to get nonce"
ErrEstimateGas == "failed to estimate gas"
ErrGasCap == "gas limit exceeds maximum allowed"
ErrHeader == "failed to calculate fees: failed to get latest header"
ErrGasPrice == "failed to calculate fees: failed to get gas price"
ErrMaxFee == "failed to calculate fees: max fee too high"
ErrNoFees == "transaction must specify either EIP-1559 fields or legacy GasPrice"
ErrSign == "failed to sign transaction"
ErrSend == "failed to send transaction"

----------------------------------------------------------------------------
(* Signed transactions *)

NoTx == [type |-> "nil"]

\* types.NewTx(&types.DynamicFeeTx{...})
\* DynamicFeeTx carrying the intent's gas price along
DynamicFeeTx_withGasPrice(cid, t) ==
    [type |-> "dynamic", ChainID |-> cid, Nonce |-> t.Nonce,
     GasTipCap |-> t.MaxPriorityFeePerGas, GasFeeCap |-> t.MaxFeePerGas,
     GasPrice |-> t.GasPrice, Gas |-> t.GasLimit, To |-> t.To,
     Value |-> t.Value, Data |-> t.Data]

DynamicFeeTx(cid, t) ==
    [type |-> "dynamic", ChainID |-> cid, Nonce |-> t.Nonce,
     GasTipCap |-> t.MaxPriorityFeePerGas, GasFeeCap |-> t.MaxFeePerGas,
     GasPrice |-> NIL, Gas |-> t.GasLimit, To |-> t.To, Value |-> t.Value,
     Data |-> t.Data]

\* types.NewTransaction(nonce, to, value, gasLimit, gasPrice, data)
LegacyTx(t) ==
    [type |-> "legacy", ChainID |-> NIL, Nonce |-> t.Nonce,
     GasTipCap |-> NIL, GasFeeCap |-> NIL,
     GasPrice |-> t.GasPrice, Gas |-> t.GasLimit, To |-> t.To,
     Value |-> t.Value, Data |-> t.Data]

\* types.SignTx(tx, types.LatestSignerForChainID(cid), key): the signer
\* refuses a typed envelope of another chain; a legacy envelope takes the
\* signer's chain id (EIP-155); the sender is the key's address
SignTx(etx, cid, keyAddr) ==
    IF etx.type = "dynamic" /\ etx.ChainID # cid
    THEN [stx |-> NoTx, err |-> ErrSign]
    ELSE [stx |-> [etx EXCEPT !.ChainID = cid] @@ [sender |-> keyAddr],
          err |-> ""]

Hash(stx) == <<"hash", stx>>

----------------------------------------------------------------------------
(* ghostClient: gas limit, fees, signing.  Every operator takes the intent *)
(* t, the node's answers r, and returns the intent as the code leaves it,  *)
(* the error, the node calls it made, and in `need` the site of a call     *)
(* that is still unanswered ("" when the operator ran to its return).      *)

Step(t, err, cs, need) == [tx |-> t, err |-> err, calls |-> cs, need |-> need]

\* Buffered with the product rounded up instead of truncated
\* Buffered with the product rounded to the nearest integer
Buffered_nearest(gasLimit, buffer) ==
    (2 * gasLimit * buffer + BufferDen) \div (2 * BufferDen)

Buffered_roundUp(gasLimit, buffer) ==
    (gasLimit * buffer + BufferDen - 1) \div BufferDen

\* uint64(float64(gasLimit) * buffer)
Buffered(gasLimit, buffer) == (gasLimit * buffer) \div BufferDen

\* OverCap with the comparison made inclusive
OverCap_inclusive(gasLimit, maxGas) == gasLimit >= maxGas

\* if tx.GasLimit > maxGas
OverCap(gasLimit, maxGas) == gasLimit > maxGas

\* estimateGasAndSetLimit with a failed header fetch returned as an error
\* estimateGasAndSetLimit writing the gas limit only once it has passed the
\* cap check
estimateGasAndSetLimit_writeAfterCheck(t, r, e) ==
    LET msg == [From |-> t.From, To |-> t.To, Value |-> t.Value,
                Data |-> t.Data]
        c1 == <<Call("EstimateGas", "estimate", msg, r.estimate)>>
    IN
    IF r.estimate.st = "unused" THEN Step(t, "", <<>>, "estimate")
    ELSE IF r.estimate.st = "err" THEN Step(t, ErrEstimateGas, c1, "")
    ELSE
    LET gasLimit == r.estimate.val
        buffer == IF Len(t.Data) = 0 THEN GasLimitBufferSimple(e)
                  ELSE GasLimitBufferComplex(e)
        t1 == [t EXCEPT !.GasLimit = Buffered(gasLimit, buffer)]
        c2 == c1 \o <<Call("HeaderByNumber", "capHeader", NIL, r.capHeader)>>
    IN
    IF r.capHeader.st = "unused" THEN Step(t1, "", c1, "capHeader")
    ELSE IF r.capHeader.st = "ok" /\ r.capHeader.val.GasLimit > 0
    THEN LET maxGas == (r.capHeader.val.GasLimit * 2) \div 3
         IN  IF OverCap(t1.GasLimit, maxGas) THEN Step(t, ErrGasCap, c2, "")
             ELSE Step(t1, "", c2, "")
    ELSE Step(t1, "", c2, "")

estimateGasAndSetLimit_headerFatal(t, r, e) ==
    LET msg == [From |-> t.From, To |-> t.To, Value |-> t.Value,
                Data |-> t.Data]
        c1 == <<Call("EstimateGas", "estimate", msg, r.estimate)>>
    IN
    IF r.estimate.st = "unused" THEN Step(t, "", <<>>, "estimate")
    ELSE IF r.estimate.st = "err" THEN Step(t, ErrEstimateGas, c1, "")
    ELSE
    LET gasLimit == r.estimate.val
        buffer == IF Len(t.Data) = 0 THEN GasLimitBufferSimple(e)
                  ELSE GasLimitBufferComplex(e)
        t1 == [t EXCEPT !.GasLimit = Buffered(gasLimit, buffer)]
        c2 == c1 \o <<Call("HeaderByNumber", "capHeader", NIL, r.capHeader)>>
    IN
    IF r.capHeader.st = "unused" THEN Step(t1, "", c1, "capHeader")
    ELSE IF r.capHeader.st = "err" THEN Step(t1, ErrEstimateGas, c2, "")
    ELSE IF r.capHeader.val.GasLimit > 0
    THEN LET maxGas == (r.capHeader.val.GasLimit * 2) \div 3
         IN  IF OverCap(t1.GasLimit, maxGas) THEN Step(t1, ErrGasCap, c2, "")
             ELSE Step(t1, "", c2, "")
    ELSE Step(t1, "", c2, "")

estimateGasAndSetLimit(t, r, e) ==
    LET msg == [From |-> t.From, To |-> t.To, Value |-> t.Value,
                Data |-> t.Data]
        c1 == <<Call("EstimateGas", "estimate", msg, r.estimate)>>
    IN
    IF r.estimate.st = "unused" THEN Step(t, "", <<>>, "estimate")
    ELSE IF r.estimate.st = "err" THEN Step(t, ErrEstimateGas, c1, "")
    ELSE
    LET gasLimit == r.estimate.val
        buffer == IF Len(t.Data) = 0 THEN GasLimitBufferSimple(e)
                  ELSE GasLimitBufferComplex(e)
        t1 == [t EXCEPT !.GasLimit = Buffered(gasLimit, buffer)]
        c2 == c1 \o <<Call("HeaderByNumber", "capHeader", NIL, r.capHeader)>>
    IN
    IF r.capHeader.st = "unused" THEN Step(t1, "", c1, "capHeader")
    ELSE IF r.capHeader.st = "ok" /\ r.capHeader.val.GasLimit > 0
    THEN LET maxGas == (r.capHeader.val.GasLimit * 2) \div 3
         IN  IF OverCap(t1.GasLimit, maxGas) THEN Step(t1, ErrGasCap, c2, "")
             ELSE Step(t1, "", c2, "")
    ELSE Step(t1, "", c2, "")

\* getFixedPriorityFee without the case for Base
getFixedPriorityFee_noBase(cid, e) ==
    CASE cid = 1 -> PriorityFeeMainnet(e)
      [] OTHER -> PriorityFeeDefault(e)

getFixedPriorityFee(cid, e) ==
    CASE cid = 1 -> PriorityFeeMainnet(e)
      [] cid = 8453 -> PriorityFeeBase(e)
      [] OTHER -> PriorityFeeDefault(e)

\* TooHigh with the comparison made inclusive
TooHigh_inclusive(maxFee, maxAllowed) == maxFee >= maxAllowed

\* tx.MaxFeePerGas.Cmp(maxAllowed) > 0
TooHigh(maxFee, maxAllowed) == maxFee > maxAllowed

\* validateFees holding the legacy gas price to the ceiling as well
validateFees_legacyCapped(t, e) ==
    IF t.MaxFeePerGas = NIL
    THEN IF t.GasPrice # NIL /\ TooHigh(t.GasPrice, MaxFeePerGas(e))
         THEN ErrMaxFee ELSE ""
    ELSE IF TooHigh(t.MaxFeePerGas, MaxFeePerGas(e)) THEN ErrMaxFee
    ELSE ""

validateFees(t, e) ==
    IF t.MaxFeePerGas = NIL THEN ""
    ELSE IF TooHigh(t.MaxFeePerGas, MaxFeePerGas(e)) THEN ErrMaxFee
    ELSE ""

\* UseFeeMarket recomputing the fees whenever the header has a base fee
UseFeeMarket_always(header, t) == header.BaseFee # NIL

\* UseFeeMarket without the grouping of the two nil tests
UseFeeMarket_ungrouped(header, t) ==
    \/ header.BaseFee # NIL /\ t.MaxFeePerGas = NIL
    \/ t.MaxPriorityFeePerGas = NIL

\* header.BaseFee != nil && (tx.MaxFeePerGas == nil ||
\*                            tx.MaxPriorityFeePerGas == nil)
UseFeeMarket(header, t) ==
    /\ header.BaseFee # NIL
    /\ (t.MaxFeePerGas = NIL \/ t.MaxPriorityFeePerGas = NIL)

\* NeedGasPrice with the nil test inverted
NeedGasPrice_inverted(t) == t.GasPrice # NIL

\* legacy branch: if tx.GasPrice == nil
NeedGasPrice(t) == t.GasPrice = NIL

calculateOptimalFees(t, r, cid, e) ==
    LET c1 == <<Call("HeaderByNumber", "feeHeader", NIL, r.feeHeader)>>
    IN
    IF r.feeHeader.st = "unused" THEN Step(t, "", <<>>, "feeHeader")
    ELSE IF r.feeHeader.st = "err" THEN Step(t, ErrHeader, c1, "")
    ELSE
    LET header == r.feeHeader.val
    IN
    IF UseFeeMarket(header, t)
    THEN LET prio == getFixedPriorityFee(cid, e)
             maxFee == header.BaseFee * 2 + prio
             t1 == [t EXCEPT !.MaxPriorityFeePerGas = prio,
                             !.MaxFeePerGas = maxFee]
         IN  Step(t1, validateFees(t1, e), c1, "")
    ELSE IF NeedGasPrice(t)
    THEN LET c2 == c1 \o <<Call("SuggestGasPrice", "gasPrice", NIL,
                                r.gasPrice)>>
         IN  IF r.gasPrice.st = "unused" THEN Step(t, "", c1, "gasPrice")
             ELSE IF r.gasPrice.st = "err" THEN Step(t, ErrGasPrice, c2, "")
             ELSE LET t1 == [t EXCEPT !.GasPrice = r.gasPrice.val]
                  IN  Step(t1, validateFees(t1, e), c2, "")
    ELSE Step(t, validateFees(t, e), c1, "")

\* NonceAddr with the nonce of another address
NonceAddr_other(t) == CHOOSE a \in Addrs : a # t.From

\* the address whose pending nonce SignTransaction asks the node for
NonceAddr(t) == t.From

\* EnvelopeChainID taken from the intent
EnvelopeChainID_intent(t, cid) == t.ChainID

\* the chain id put in the fee-market envelope
EnvelopeChainID(t, cid) == cid

Result(t, stx, err, cs, need) ==
    [tx |-> t, signed |-> stx, err |-> err, calls |-> cs, need |-> need]

\* envelope construction and signature, after fee computation succeeded
BuildAndSign(t, cs, cid) ==
    IF t.MaxFeePerGas # NIL /\ t.MaxPriorityFeePerGas # NIL
    THEN LET s == SignTx(DynamicFeeTx(EnvelopeChainID(t, cid), t), cid,
                         AccountAddr)
         IN  Result(t, s.stx, s.err, cs, "")
    ELSE IF t.GasPrice # NIL
    THEN LET s == SignTx(LegacyTx(t), cid, AccountAddr)
         IN  Result(t, s.stx, s.err, cs, "")
    ELSE Result(t, NoTx, ErrNoFees, cs, "")

\* SignTransaction estimating the gas limit whatever the intent carries
SignTransaction_alwaysEstimates(t, r, cid, e, nonces) ==
    LET c1 == IF t.Nonce = 0
              THEN <<Call("PendingNonceAt", "nonce", NonceAddr(t),
                          IF r.nonce.st = "ok"
                          THEN Ok(nonces[NonceAddr(t)]) ELSE r.nonce)>>
              ELSE <<>>
    IN
    IF t.Nonce = 0 /\ r.nonce.st = "unused"
    THEN Result(t, NoTx, "", <<>>, "nonce")
    ELSE IF t.Nonce = 0 /\ r.nonce.st = "err"
    THEN Result(t, NoTx, ErrNonce, c1, "")
    ELSE
    LET t1 == IF t.Nonce = 0 THEN [t EXCEPT !.Nonce = nonces[NonceAddr(t)]]
              ELSE t
        g == estimateGasAndSetLimit(t1, r, e)
    IN
    IF g.need # "" THEN Result(g.tx, NoTx, "", c1 \o g.calls, g.need)
    ELSE IF g.err # "" THEN Result(g.tx, NoTx, g.err, c1 \o g.calls, "")
    ELSE
    LET f == calculateOptimalFees(g.tx, r, cid, e)
        c3 == c1 \o g.calls \o f.calls
    IN
    IF f.need # "" THEN Result(f.tx, NoTx, "", c3, f.need)
    ELSE IF f.err # "" THEN Result(f.tx, NoTx, f.err, c3, "")
    ELSE BuildAndSign(f.tx, c3, cid)

\* SignTransaction with the fees computed before the gas limit
SignTransaction_feesFirst(t, r, cid, e, nonces) ==
    LET c1 == IF t.Nonce = 0
              THEN <<Call("PendingNonceAt", "nonce", NonceAddr(t),
                          IF r.nonce.st = "ok"
                          THEN Ok(nonces[NonceAddr(t)]) ELSE r.nonce)>>
              ELSE <<>>
    IN
    IF t.Nonce = 0 /\ r.nonce.st = "unused"
    THEN Result(t, NoTx, "", <<>>, "nonce")
    ELSE IF t.Nonce = 0 /\ r.nonce.st = "err"
    THEN Result(t, NoTx, ErrNonce, c1, "")
    ELSE
    LET t1 == IF t.Nonce = 0 THEN [t EXCEPT !.Nonce = nonces[NonceAddr(t)]]
              ELSE t
        f == calculateOptimalFees(t1, r, cid, e)
    IN
    IF f.need # "" THEN Result(f.tx, NoTx, "", c1 \o f.calls, f.need)
    ELSE IF f.err # "" THEN Result(f.tx, NoTx, f.err, c1 \o f.calls, "")
    ELSE
    LET g == IF f.tx.GasLimit = 0 THEN estimateGasAndSetLimit(f.tx, r, e)
             ELSE Step(f.tx, "", <<>>, "")
        c3 == c1 \o f.calls \o g.calls
    IN
    IF g.need # "" THEN Result(g.tx, NoTx, "", c3, g.need)
    ELSE IF g.err # "" THEN Result(g.tx, NoTx, g.err, c3, "")
    ELSE BuildAndSign(g.tx, c3, cid)

SignTransaction(t, r, cid, e, nonces) ==
    LET c1 == IF t.Nonce = 0
              THEN <<Call("PendingNonceAt", "nonce", NonceAddr(t),
                          IF r.nonce.st = "ok"
                          THEN Ok(nonces[NonceAddr(t)]) ELSE r.nonce)>>
              ELSE <<>>
    IN
    IF t.Nonce = 0 /\ r.nonce.st = "unused"
    THEN Result(t, NoTx, "", <<>>, "nonce")
    ELSE IF t.Nonce = 0 /\ r.nonce.st = "err"
    THEN Result(t, NoTx, ErrNonce, c1, "")
    ELSE
    LET t1 == IF t.Nonce = 0 THEN [t EXCEPT !.Nonce = nonces[NonceAddr(t)]]
              ELSE t
        g == IF t1.GasLimit = 0 THEN estimateGasAndSetLimit(t1, r, e)
             ELSE Step(t1, "", <<>>, "")
    IN
    IF g.need # "" THEN Result(g.tx, NoTx, "", c1 \o g.calls, g.need)
    ELSE IF g.err # "" THEN Result(g.tx, NoTx, g.err, c1 \o g.calls, "")
    ELSE
    LET f == calculateOptimalFees(g.tx, r, cid, e)
        c3 == c1 \o g.calls \o f.calls
    IN
    IF f.need # "" THEN Result(f.tx, NoTx, "", c3, f.need)
    ELSE IF f.err # "" THEN Result(f.tx, NoTx, f.err, c3, "")
    ELSE BuildAndSign(f.tx, c3, cid)

\* every way one SignTransaction call can go: each node call it reaches is
\* answered in every possible way
RECURSIVE SignOutcomes(_, _, _, _, _)
SignOutcomes(t, r, cid, e, nonces) ==
    LET out == SignTransaction(t, r, cid, e, nonces)
    IN  IF out.need = "" THEN {out}
        ELSE UNION {SignOutcomes(t, [r EXCEPT ![out.need] = a], cid, e,
                                 nonces) : a \in Answers(out.need)}

----------------------------------------------------------------------------
(* The second client of the repository, ethereumClient of package pkg      *)

ErrPanic == "panic: invalid memory address or nil pointer dereference"

\* header.BaseFee != nil && tx.MaxFeePerGas == nil ||
\*     tx.MaxPriorityFeePerGas == nil
ethereumClient_UseFeeMarket(header, t) ==
    \/ header.BaseFee # NIL /\ t.MaxFeePerGas = NIL
    \/ t.MaxPriorityFeePerGas = NIL

\* ethereumClient.calculateOptimalFees; new(big.Int).Mul(header.BaseFee, ..)
\* dereferences the base fee, and panics when the header has none
ethereumClient_calculateOptimalFees(t, r, cid, e) ==
    LET c1 == <<Call("HeaderByNumber", "feeHeader", NIL, r.feeHeader)>>
    IN
    IF r.feeHeader.st = "unused" THEN Step(t, "", <<>>, "feeHeader")
    ELSE IF r.feeHeader.st = "err" THEN Step(t, ErrHeader, c1, "")
    ELSE
    LET header == r.feeHeader.val
    IN
    IF ethereumClient_UseFeeMarket(header, t)
    THEN LET prio == getFixedPriorityFee(cid, e)
             t0 == [t EXCEPT !.MaxPriorityFeePerGas = prio]
         IN  IF header.BaseFee = NIL THEN Step(t0, ErrPanic, c1, "")
             ELSE LET t1 == [t0 EXCEPT !.MaxFeePerGas =
                                          header.BaseFee * 2 + prio]
                  IN  Step(t1, validateFees(t1, e), c1, "")
    ELSE IF NeedGasPrice(t)
    THEN LET c2 == c1 \o <<Call("SuggestGasPrice", "gasPrice", NIL,
                                r.gasPrice)>>
         IN  IF r.gasPrice.st = "unused" THEN Step(t, "", c1, "gasPrice")
             ELSE IF r.gasPrice.st = "err" THEN Step(t, ErrGasPrice, c2, "")
             ELSE LET t1 == [t EXCEPT !.GasPrice = r.gasPrice.val]
                  IN  Step(t1, validateFees(t1, e), c2, "")
    ELSE Step(t, validateFees(t, e), c1, "")

\* ethereumClient.SignTransaction: the gas limit is estimated in line, with
\* the statements of estimateGasAndSetLimit
ethereumClient_SignTransaction(t, r, cid, e, nonces) ==
    LET c1 == IF t.Nonce = 0
              THEN <<Call("PendingNonceAt", "nonce", t.From,
                          IF r.nonce.st = "ok"
                          THEN Ok(nonces[t.From]) ELSE r.nonce)>>
              ELSE <<>>
    IN
    IF t.Nonce = 0 /\ r.nonce.st = "unused"
    THEN Result(t, NoTx, "", <<>>, "nonce")
    ELSE IF t.Nonce = 0 /\ r.nonce.st = "err"
    THEN Result(t, NoTx, ErrNonce, c1, "")
    ELSE
    LET t1 == IF t.Nonce = 0 THEN [t EXCEPT !.Nonce = nonces[t.From]]
              ELSE t
        g == IF t1.GasLimit = 0 THEN estimateGasAndSetLimit(t1, r, e)
             ELSE Step(t1, "", <<>>, "")
    IN
    IF g.need # "" THEN Result(g.tx, NoTx, "", c1 \o g.calls, g.need)
    ELSE IF g.err # "" THEN Result(g.tx, NoTx, g.err, c1 \o g.calls, "")
    ELSE
    LET f == ethereumClient_calculateOptimalFees(g.tx, r, cid, e)
        c3 == c1 \o g.calls \o f.calls
    IN
    IF f.need # "" THEN Result(f.tx, NoTx, "", c3, f.need)
    ELSE IF f.err # "" THEN Result(f.tx, NoTx, f.err, c3, "")
    ELSE BuildAndSign(f.tx, c3, cid)

----------------------------------------------------------------------------
(* Broadcast *)

NoReceipt == [nil |-> TRUE]
NoErr == [msg |-> ""]

\* no WaitForTransaction call has been made
WaitIdle ==
    /\ nodeReceipt = NoReceipt
    /\ wstate = "idle"
    /\ now = 0
    /\ timeoutReady = FALSE
    /\ tickReady = FALSE
    /\ lookups = 0
    /\ wres = NoReceipt
    /\ werr = NoErr

\* Broadcasts with a second attempt after a rejection
Broadcasts_retry(stx, a) ==
    IF a.st = "err"
    THEN <<Call("SendTransaction", "broadcast", stx, a),
           Call("SendTransaction", "broadcast", stx, a)>>
    ELSE <<Call("SendTransaction", "broadcast", stx, a)>>

\* the broadcast calls SendTransaction makes for one node answer
Broadcasts(stx, a) == <<Call("SendTransaction", "broadcast", stx, a)>>

SendTransaction(stx, a) ==
    IF a.st = "err"
    THEN [receipt |-> NoReceipt, err |-> ErrSend, calls |-> Broadcasts(stx, a)]
    ELSE [receipt |-> [nil |-> FALSE, TxHash |-> Hash(stx), Status |-> 0,
                       BlockNumber |-> 0, GasUsed |-> 0,
                       From |-> AccountAddr, To |-> stx.To],
          err |-> "", calls |-> Broadcasts(stx, a)]

----------------------------------------------------------------------------
(* The client as NewGhostClient returns it *)

ZeroAddr == "a0"

\* *Account: the key fields are TRUE when the pointer is not nil
Account(priv, pub, addr, cid) ==
    [PrivateKey |-> priv, PublicKey |-> pub, Address |-> addr, ChainId |-> cid]

NoConn == [state |-> "none", released |-> 0]
OpenConn == [state |-> "open", released |-> 0]

NoRet == [nil |-> TRUE]

\* &ghostClient{client, ctx, chainId: cid, account, config} of an account
\* that passes the validation, with nothing called on it yet
NoCalls == <<>>
NoPrev == [nil |-> TRUE, err |-> "", calls |-> <<>>]

\* one caller, no SignTransaction call made before
NoSession ==
    /\ inflight = NoCalls
    /\ prev = NoPrev

Connected(cid) ==
    /\ account = Account(TRUE, TRUE, AccountAddr, cid)
    /\ ctx = "background"
    /\ conn = OpenConn
    /\ returned = NoRet
    /\ reps = 0
    /\ nodeTx = NoTx

ErrPrivateKey == "account private key is nil"
ErrAddress == "account address is not set"
ErrChainIdUnset == "account chain ID is not set"
ErrPublicKey == "account public key is not set"
ErrConnect == "failed to connect to Ethereum network"
ErrChainID == "failed to get chain ID"
ErrChainMismatch == "expected chain ID %d, got %d"

NewSites == {"dial", "chainID"}
NoNewAnswers == [s \in NewSites |-> Unused]

\* chain ids a node may report
NodeChainIds == {1, 5}

NewAnswers(site) ==
    {Failed} \cup
    CASE site = "dial" -> {Ok(0)}
      [] site = "chainID" -> {Ok(n) : n \in NodeChainIds}

\* validateAccount without the test of the public key
validateAccount_noPublicKey(acct) ==
    IF ~acct.PrivateKey THEN ErrPrivateKey
    ELSE IF acct.Address = ZeroAddr THEN ErrAddress
    ELSE IF acct.ChainId = 0 THEN ErrChainIdUnset
    ELSE ""

\* NewGhostClient, "-- validate account"
validateAccount(acct) ==
    IF ~acct.PrivateKey THEN ErrPrivateKey
    ELSE IF acct.Address = ZeroAddr THEN ErrAddress
    ELSE IF acct.ChainId = 0 THEN ErrChainIdUnset
    ELSE IF ~acct.PublicKey THEN ErrPublicKey
    ELSE ""

\* what NewGhostClient returns and leaves behind: client is FALSE for a nil
\* client; chainId and ctx are the fields of the client, cn the connection
\* that was dialled
Made(client, cid, c, cn, err, cs, need) ==
    [client |-> client, chainId |-> cid, ctx |-> c, conn |-> cn, err |-> err,
     calls |-> cs, need |-> need]

NewGhostClient(acct, r) ==
    LET c1 == <<Call("DialContext", "dial", NIL, r.dial)>>
        c2 == c1 \o <<Call("ChainID", "chainID", NIL, r.chainID)>>
    IN
    IF validateAccount(acct) # ""
    THEN Made(FALSE, 0, "nil", NoConn, validateAccount(acct), <<>>, "")
    ELSE IF r.dial.st = "unused"
    THEN Made(FALSE, 0, "nil", NoConn, "", <<>>, "dial")
    ELSE IF r.dial.st = "err"
    THEN Made(FALSE, 0, "nil", NoConn, ErrConnect, c1, "")
    ELSE IF r.chainID.st = "unused"
    THEN Made(FALSE, 0, "nil", OpenConn, "", c1, "chainID")
    ELSE IF r.chainID.st = "err"
    THEN Made(FALSE, 0, "nil", OpenConn, ErrChainID, c2, "")
    ELSE IF r.chainID.val # acct.ChainId
    THEN Made(FALSE, 0, "nil", OpenConn, ErrChainMismatch, c2, "")
    ELSE Made(TRUE, r.chainID.val, "background", OpenConn, "", c2, "")

RECURSIVE NewOutcomes(_, _)
NewOutcomes(acct, r) ==
    LET out == NewGhostClient(acct, r)
    IN  IF out.need = "" THEN {out}
        ELSE UNION {NewOutcomes(acct, [r EXCEPT ![out.need] = a]) :
                      a \in NewAnswers(out.need)}

\* the connection teardown of the node connector: releases an open
\* connection, and does nothing on a connection already released
Teardown(cn) ==
    IF cn.state = "open"
    THEN [state |-> "closed", released |-> cn.released + 1]
    ELSE cn

\* Close with a release counted at every call
Close_releaseEveryCall(c, cn) ==
    [ctx |-> "nil",
     conn |-> [state |-> "closed", released |-> cn.released + 1]]

\* the fields of the client after Close
Close(c, cn) ==
    [ctx |-> "nil",
     conn |-> IF cn.state # "none" THEN Teardown(cn) ELSE cn]

----------------------------------------------------------------------------
(* The callers' intents and the clients that NewGhostClient can return *)

ChainIds == {1, 8453, 5}
IntentChainIDs == {NIL, 7}

Intents ==
    [From : Addrs, To : Recipients, Value : {1}, Data : {<<>>, <<1>>},
     GasLimit : {0, 7}, GasPrice : {NIL, 25},
     MaxFeePerGas : {NIL, 1000, 1001}, MaxPriorityFeePerGas : {NIL, 1},
     Nonce : {0, 9}, ChainID : IntentChainIDs]

NodeNonces == {[a \in Addrs |-> IF a = AccountAddr THEN 3 ELSE 8]}

----------------------------------------------------------------------------
(* State machine: a caller holding one intent signs it, then broadcasts    *)
(* the signed transaction                                                  *)

Init ==
    /\ chainId \in ChainIds
    /\ env \in Envs
    /\ nodeNonce \in NodeNonces
    /\ tx \in Intents
    /\ txIn = tx
    /\ signed = NoTx
    /\ signErr = ""
    /\ receipt = NoReceipt
    /\ sendErr = ""
    /\ op = "none"
    /\ calls = <<>>
    /\ WaitIdle
    /\ Connected(chainId)
    /\ NoSession

\* the caller signs its intent
SignTransactionCall ==
    /\ op = "none"
    /\ \E out \in SignOutcomes(tx, NoAnswers, chainId, env, nodeNonce) :
          /\ tx' = out.tx
          /\ signed' = out.signed
          /\ signErr' = out.err
          /\ calls' = out.calls
    /\ txIn' = tx
    /\ op' = "SignTransaction"
    /\ UNCHANGED <<chainId, env, nodeNonce, receipt, sendErr, waitVars,
                   clientVars, sessionVars>>

\* the caller broadcasts the transaction SignTransaction returned
SendTransactionCall ==
    /\ op = "SignTransaction"
    /\ signed # NoTx
    /\ \E a \in {Ok(0), Failed} :
          LET out == SendTransaction(signed, a)
          IN  /\ receipt' = out.receipt
              /\ sendErr' = out.err
              /\ calls' = out.calls
    /\ op' = "SendTransaction"
    /\ UNCHANGED <<chainId, env, nodeNonce, tx, txIn, signed, signErr,
                   waitVars, clientVars, sessionVars>>

Next == SignTransactionCall \/ SendTransactionCall

Spec == Init /\ [][Next]_vars

----------------------------------------------------------------------------
(* Receipts and the confirmation poll *)

ErrNotFound == [msg |-> "transaction not found or pending"]
ErrGetTx == [msg |-> "failed to get transaction"]
\* ErrTimeout without the hash in the message
ErrTimeout_noHash(h) == [msg |-> "transaction timeout", hash |-> <<>>]

\* fmt.Errorf("transaction timeout: %s", hash.Hex())
ErrTimeout(h) == [msg |-> "transaction timeout", hash |-> h]

WaitSites == {"receipt", "txByHash", "finalTx"}
NoWaitAnswers == [s \in WaitSites |-> Unused]

\* the receipts with which the node may report hash h mined
NodeReceipts(h) ==
    {[nil |-> FALSE, TxHash |-> h, Status |-> st, BlockNumber |-> 12,
      GasUsed |-> 21] : st \in {0, 1}}

\* what the node may answer to a lookup of hash h: a receipt only once the
\* transaction is mined, the transaction it was sent, or a failure
WaitAnswers(site, nrcpt, stx) ==
    {Failed} \cup
    CASE site = "receipt" -> IF nrcpt = NoReceipt THEN {} ELSE {Ok(nrcpt)}
      [] OTHER -> {Ok(stx)}

\* MapReceipt with the sender taken from the transaction the node returned
MapReceipt_senderFromNode(nrcpt, ntx) ==
    [nil |-> FALSE, TxHash |-> nrcpt.TxHash, Status |-> nrcpt.Status,
     BlockNumber |-> nrcpt.BlockNumber, GasUsed |-> nrcpt.GasUsed,
     From |-> ntx.sender, To |-> ntx.To]

\* &TransactionReceipt{...} of GetTransactionReceipt
MapReceipt(nrcpt, ntx) ==
    [nil |-> FALSE, TxHash |-> nrcpt.TxHash, Status |-> nrcpt.Status,
     BlockNumber |-> nrcpt.BlockNumber, GasUsed |-> nrcpt.GasUsed,
     From |-> AccountAddr, To |-> ntx.To]

\* GetTransactionReceipt with the transaction looked up before the receipt
GetTransactionReceipt_txFirst(h, r) ==
    LET c1 == <<Call("TransactionByHash", "txByHash", h, r.txByHash)>>
        c2 == c1 \o <<Call("TransactionReceipt", "receipt", h, r.receipt)>>
    IN
    IF r.txByHash.st = "unused"
    THEN [receipt |-> NoReceipt, err |-> NoErr, calls |-> <<>>,
          need |-> "txByHash"]
    ELSE IF r.txByHash.st = "err"
    THEN [receipt |-> NoReceipt, err |-> ErrGetTx, calls |-> c1, need |-> ""]
    ELSE IF r.receipt.st = "unused"
    THEN [receipt |-> NoReceipt, err |-> NoErr, calls |-> c1,
          need |-> "receipt"]
    ELSE IF r.receipt.st = "err"
    THEN [receipt |-> NoReceipt, err |-> ErrNotFound, calls |-> c2,
          need |-> ""]
    ELSE [receipt |-> MapReceipt(r.receipt.val, r.txByHash.val),
          err |-> NoErr, calls |-> c2, need |-> ""]

GetTransactionReceipt(h, r) ==
    LET c1 == <<Call("TransactionReceipt", "receipt", h, r.receipt)>>
        c2 == c1 \o <<Call("TransactionByHash", "txByHash", h, r.txByHash)>>
    IN
    IF r.receipt.st = "unused"
    THEN [receipt |-> NoReceipt, err |-> NoErr, calls |-> <<>>,
          need |-> "receipt"]
    ELSE IF r.receipt.st = "err"
    THEN [receipt |-> NoReceipt, err |-> ErrNotFound, calls |-> c1,
          need |-> ""]
    ELSE IF r.txByHash.st = "unused"
    THEN [receipt |-> NoReceipt, err |-> NoErr, calls |-> c1,
          need |-> "txByHash"]
    ELSE IF r.txByHash.st = "err"
    THEN [receipt |-> NoReceipt, err |-> ErrGetTx, calls |-> c2, need |-> ""]
    ELSE [receipt |-> MapReceipt(r.receipt.val, r.txByHash.val),
          err |-> NoErr, calls |-> c2, need |-> ""]

\* waitForTransaction, case <-ticker.C: if err == nil { return receipt, nil }
LoopReturns(g) == g.err = NoErr

\* FinalReceipt without the block number, as in the provisional receipt
FinalReceipt_noBlock(rcpt, ntx) ==
    [nil |-> FALSE, TxHash |-> rcpt.TxHash, Status |-> rcpt.Status,
     BlockNumber |-> 0, GasUsed |-> rcpt.GasUsed,
     From |-> AccountAddr, To |-> ntx.To]

\* &TransactionReceipt{...} of WaitForTransaction
FinalReceipt(rcpt, ntx) ==
    [nil |-> FALSE, TxHash |-> rcpt.TxHash, Status |-> rcpt.Status,
     BlockNumber |-> rcpt.BlockNumber, GasUsed |-> rcpt.GasUsed,
     From |-> AccountAddr, To |-> ntx.To]

Polled(state, res, err, cs, need) ==
    [state |-> state, res |-> res, err |-> err, calls |-> cs, need |-> need]

\* one tick of the loop of waitForTransaction and, when the loop returns,
\* the rest of WaitForTransaction
PollTick(h, r) ==
    LET g == GetTransactionReceipt(h, r)
        c3 == g.calls \o <<Call("TransactionByHash", "finalTx", h, r.finalTx)>>
    IN
    IF g.need # "" THEN Polled("waiting", NoReceipt, NoErr, g.calls, g.need)
    ELSE IF ~LoopReturns(g)
    THEN Polled("waiting", NoReceipt, NoErr, g.calls, "")
    ELSE IF r.finalTx.st = "unused"
    THEN Polled("waiting", NoReceipt, NoErr, g.calls, "finalTx")
    ELSE IF r.finalTx.st = "err"
    THEN Polled("failed", NoReceipt, ErrGetTx, c3, "")
    ELSE Polled("confirmed", FinalReceipt(g.receipt, r.finalTx.val), NoErr,
                c3, "")

RECURSIVE PollOutcomes(_, _, _, _)
PollOutcomes(h, r, nrcpt, stx) ==
    LET out == PollTick(h, r)
    IN  IF out.need = "" THEN {out}
        ELSE UNION {PollOutcomes(h, [r EXCEPT ![out.need] = a], nrcpt, stx) :
                      a \in WaitAnswers(out.need, nrcpt, stx)}

\* the two timers d seconds later: time.After(timeout) fires once the
\* timeout has elapsed, the ticker fires at every multiple of the interval
\* and drops the tick when the previous one has not been received

\* TimeoutAfter with a timer that never fires
TimeoutAfter_never(d) == timeoutReady

\* time.After(timeout): the channel holds a value from the timeout on
TimeoutAfter(d) ==
    timeoutReady \/ now + d >= TransactionTimeoutSeconds(env)

\* TickAfter with a ticker that ticks at once
TickAfter_immediate(pending, d) == TRUE

\* time.NewTicker(interval): a tick at every multiple of the interval,
\* kept while the channel's one slot is free
TickAfter(pending, d) ==
    pending \/ \E k \in now + 1 .. now + d :
                  k % TransactionTickerSeconds(env) = 0

\* the hash the caller waits for: the one of its provisional receipt
AwaitedHash == receipt.TxHash

WaitForTransactionCall ==
    /\ op = "SendTransaction"
    /\ receipt # NoReceipt
    /\ wstate = "idle"
    /\ wstate' = "waiting"
    /\ now' = 0
    /\ timeoutReady' = FALSE
    /\ tickReady' = FALSE
    /\ lookups' = 0
    /\ op' = "WaitForTransaction"
    /\ calls' = <<>>
    /\ UNCHANGED <<signVars, nodeReceipt, wres, werr, clientVars, sessionVars>>

\* the loop is blocked in select with neither channel ready
TimePasses ==
    /\ wstate = "waiting"
    /\ ~timeoutReady /\ ~tickReady
    /\ now' = now + 1
    /\ timeoutReady' = TimeoutAfter(1)
    /\ tickReady' = TickAfter(tickReady, 1)
    /\ UNCHANGED <<signVars, op, calls, nodeReceipt, wstate, lookups, wres,
                   werr, clientVars, sessionVars>>

\* select takes case <-timeoutChan
SelectTimeout ==
    /\ wstate = "waiting"
    /\ timeoutReady
    /\ wstate' = "timed-out"
    /\ wres' = NoReceipt
    /\ werr' = ErrTimeout(AwaitedHash)
    /\ calls' = <<>>
    /\ UNCHANGED <<signVars, op, nodeReceipt, now, timeoutReady, tickReady,
                   lookups, clientVars, sessionVars>>

\* select takes case <-ticker.C; the node calls take d seconds (the model
\* follows the clock up to MaxCallSeconds past the timeout)
SelectTick ==
    /\ wstate = "waiting"
    /\ tickReady
    /\ \E out \in PollOutcomes(AwaitedHash, NoWaitAnswers, nodeReceipt, signed),
          d \in 0 .. MaxCallSeconds :
          /\ now + d <= TransactionTimeoutSeconds(env) + MaxCallSeconds
          /\ wstate' = out.state
          /\ wres' = out.res
          /\ werr' = out.err
          /\ calls' = out.calls
          /\ now' = now + d
          /\ timeoutReady' = TimeoutAfter(d)
          /\ tickReady' = TickAfter(FALSE, d)
    /\ lookups' = lookups + 1
    /\ UNCHANGED <<signVars, op, nodeReceipt, clientVars, sessionVars>>

\* the node includes the awaited transaction in a block
NodeMines ==
    /\ op \in {"SendTransaction", "WaitForTransaction"}
    /\ receipt # NoReceipt
    /\ nodeReceipt = NoReceipt
    /\ nodeReceipt' \in NodeReceipts(AwaitedHash)
    /\ UNCHANGED <<signVars, op, calls, wstate, now, timeoutReady, tickReady,
                   lookups, wres, werr, clientVars, sessionVars>>

\* polling settings of the environments in which the poll loop is run
MaxTimeout == 3
MaxInterval == 2
WaitEnvs ==
    {[EnvEmpty EXCEPT ![envTransactionTimeoutSeconds] = Str(t),
                      ![envTransactionTickerSeconds] = Str(i)] :
        t \in 1 .. MaxTimeout, i \in 1 .. MaxInterval}

\* a transaction signed and broadcast through this client
SampleIntent ==
    [From |-> AccountAddr, To |-> "b1", Value |-> 1, Data |-> <<>>,
     GasLimit |-> 0, GasPrice |-> NIL, MaxFeePerGas |-> NIL,
     MaxPriorityFeePerGas |-> NIL, Nonce |-> 0, ChainID |-> NIL]
SampleAnswers ==
    [nonce |-> Ok(0), estimate |-> Ok(5), capHeader |-> Ok(Header(9, 1)),
     feeHeader |-> Ok(Header(9, 1)), gasPrice |-> Unused]

InitWait ==
    /\ chainId = 1
    /\ env \in WaitEnvs
    /\ nodeNonce \in NodeNonces
    /\ txIn = SampleIntent
    /\ LET s == SignTransaction(SampleIntent, SampleAnswers, chainId, env,
                                nodeNonce)
           b == SendTransaction(s.signed, Ok(0))
       IN  /\ tx = s.tx
           /\ signed = s.signed
           /\ signErr = s.err
           /\ receipt = b.receipt
           /\ sendErr = b.err
           /\ calls = b.calls
    /\ op = "SendTransaction"
    /\ WaitIdle
    /\ Connected(chainId)
    /\ NoSession

NextWait ==
    \/ WaitForTransactionCall
    \/ TimePasses
    \/ SelectTimeout
    \/ SelectTick
    \/ NodeMines

WaitSpec == InitWait /\ [][NextWait]_vars

\* the goroutine of the caller is scheduled: a select with a ready channel
\* proceeds, a select with both channels ready picks each of them with
\* equal chance, the clock advances, and every node call returns
WaitLiveSpec ==
    /\ WaitSpec
    /\ WF_vars(WaitForTransactionCall)
    /\ WF_vars(TimePasses)
    /\ WF_vars(SelectTimeout)
    /\ WF_vars(SelectTick)

----------------------------------------------------------------------------
(* State machine: a caller constructs a client, asks it for the receipt of *)
(* a transaction the node holds, and closes it                             *)

MaxRepeat == 3

\* the accounts a caller may pass to NewGhostClient
Accounts ==
    {Account(priv, pub, addr, cid) :
        priv \in BOOLEAN, pub \in BOOLEAN, addr \in {ZeroAddr, AccountAddr},
        cid \in {0} \cup NodeChainIds}

\* transactions the node holds, sent by this account or by another one
NodeTxs ==
    {SignTx(LegacyTx([SampleIntent EXCEPT !.To = to, !.GasLimit = 7,
                                          !.GasPrice = 5, !.Nonce = 9]),
            1, a).stx : to \in {"b1", "b2"}, a \in Addrs}

RECURSIVE ReceiptOutcomes(_, _, _, _)
ReceiptOutcomes(h, r, nrcpt, stx) ==
    LET out == GetTransactionReceipt(h, r)
    IN  IF out.need = "" THEN {out}
        ELSE UNION {ReceiptOutcomes(h, [r EXCEPT ![out.need] = a], nrcpt,
                                    stx) :
                      a \in WaitAnswers(out.need, nrcpt, stx)}

HasClient == chainId # 0

Repeated(name) == IF op = name THEN reps + 1 ELSE 1

InitClient ==
    /\ chainId = 0
    /\ env = EnvEmpty
    /\ nodeNonce \in NodeNonces
    /\ tx = SampleIntent
    /\ txIn = tx
    /\ signed = NoTx
    /\ signErr = ""
    /\ receipt = NoReceipt
    /\ sendErr = ""
    /\ op = "none"
    /\ calls = <<>>
    /\ WaitIdle
    /\ account \in Accounts
    /\ ctx = "nil"
    /\ conn = NoConn
    /\ returned = NoRet
    /\ reps = 0
    /\ nodeTx \in NodeTxs
    /\ NoSession

NewGhostClientCall ==
    /\ op = "none"
    /\ \E out \in NewOutcomes(account, NoNewAnswers) :
          /\ chainId' = out.chainId
          /\ ctx' = out.ctx
          /\ conn' = out.conn
          /\ returned' = [client |-> out.client, err |-> out.err]
          /\ calls' = out.calls
    /\ op' = "NewGhostClient"
    /\ reps' = 1
    /\ UNCHANGED <<env, nodeNonce, tx, txIn, signed, signErr, receipt,
                   sendErr, waitVars, account, nodeTx, sessionVars>>

\* the caller asks an open client for the receipt of the node's transaction
GetTransactionReceiptCall ==
    /\ HasClient
    /\ ctx = "background"
    /\ Repeated("GetTransactionReceipt") <= MaxRepeat
    /\ \E out \in ReceiptOutcomes(Hash(nodeTx), NoWaitAnswers, nodeReceipt,
                                   nodeTx) :
          /\ returned' = [receipt |-> out.receipt, err |-> out.err]
          /\ calls' = out.calls
    /\ op' = "GetTransactionReceipt"
    /\ reps' = Repeated("GetTransactionReceipt")
    /\ UNCHANGED <<signVars, waitVars, account, ctx, conn, nodeTx,
                   sessionVars>>

CloseCall ==
    /\ HasClient
    /\ Repeated("Close") <= MaxRepeat
    /\ LET c == Close(ctx, conn)
       IN  /\ ctx' = c.ctx
           /\ conn' = c.conn
    /\ returned' = NoRet
    /\ calls' = <<Call("Close", "close", NIL, Ok(0))>>
    /\ op' = "Close"
    /\ reps' = Repeated("Close")
    /\ UNCHANGED <<signVars, waitVars, account, nodeTx, sessionVars>>

\* the node includes the looked-up transaction in a block
NodeMinesTx ==
    /\ HasClient
    /\ nodeReceipt = NoReceipt
    /\ nodeReceipt' \in NodeReceipts(Hash(nodeTx))
    /\ UNCHANGED <<signVars, op, calls, wstate, now, timeoutReady, tickReady,
                   lookups, wres, werr, clientVars, sessionVars>>

NextClient ==
    \/ NewGhostClientCall
    \/ GetTransactionReceiptCall
    \/ CloseCall
    \/ NodeMinesTx

ClientSpec == InitClient /\ [][NextClient]_vars

----------------------------------------------------------------------------
(* State machine: the configuration getters read the process environment  *)

\* values of a gas buffer variable: unset, unparsable, and numbers around
\* the two ends of the accepted range
BufferValues ==
    {Unset, Garbage, Str(49), Str(50), Str(150), Str(300), Str(301)}

\* values of a polling variable
TimerValues == {Unset, Garbage, Str(-1), Str(0), Str(1), Str(7)}

ConfigEnvs ==
    {[EnvEmpty EXCEPT ![docGasLimitBufferSimple] = a,
                      ![docGasLimitBufferComplex] = b,
                      ![envGasLimitBufferSimple] = c,
                      ![envGasLimitBufferComplex] = d] :
        a \in BufferValues, b \in BufferValues, c \in BufferValues,
        d \in BufferValues}
    \cup
    {[EnvEmpty EXCEPT ![envTransactionTimeoutSeconds] = t,
                      ![envTransactionTickerSeconds] = i] :
        t \in TimerValues, i \in TimerValues}

InitConfig ==
    /\ chainId = 1
    /\ env \in ConfigEnvs
    /\ nodeNonce \in NodeNonces
    /\ tx = SampleIntent
    /\ txIn = tx
    /\ signed = NoTx
    /\ signErr = ""
    /\ receipt = NoReceipt
    /\ sendErr = ""
    /\ op = "none"
    /\ calls = <<>>
    /\ WaitIdle
    /\ Connected(chainId)
    /\ NoSession

\* what a getter leaves alone: it reads the environment and changes nothing
getterUnchanged == <<signVars, calls, waitVars, account, ctx, conn, reps,
                     nodeTx, sessionVars>>

GasLimitBufferSimpleCall ==
    /\ op' = "GasLimitBufferSimple"
    /\ returned' = GasLimitBufferSimple(env)
    /\ UNCHANGED getterUnchanged

GasLimitBufferComplexCall ==
    /\ op' = "GasLimitBufferComplex"
    /\ returned' = GasLimitBufferComplex(env)
    /\ UNCHANGED getterUnchanged

TransactionTimeoutSecondsCall ==
    /\ op' = "TransactionTimeoutSeconds"
    /\ returned' = TransactionTimeoutSeconds(env)
    /\ UNCHANGED getterUnchanged

TransactionTickerSecondsCall ==
    /\ op' = "TransactionTickerSeconds"
    /\ returned' = TransactionTickerSeconds(env)
    /\ UNCHANGED getterUnchanged

\* the first two lines of waitForTransaction: the two durations, in seconds
waitForTransactionTimers ==
    /\ op' = "waitForTransaction"
    /\ returned' = [timeout |-> TransactionTimeoutSeconds(env),
                    tickerInterval |-> TransactionTickerSeconds(env)]
    /\ UNCHANGED getterUnchanged

NextConfig ==
    \/ GasLimitBufferSimpleCall
    \/ GasLimitBufferComplexCall
    \/ TransactionTimeoutSecondsCall
    \/ TransactionTickerSecondsCall
    \/ waitForTransactionTimers

ConfigSpec == InitConfig /\ [][NextConfig]_vars

----------------------------------------------------------------------------
(* State machine: a caller signs an intent and, when the call fails, calls *)
(* SignTransaction again on the same intent                                *)

RetryIntents ==
    [From : {AccountAddr}, To : Recipients, Value : {1},
     Data : {<<>>, <<1>>}, GasLimit : {0}, GasPrice : {NIL},
     MaxFeePerGas : {NIL}, MaxPriorityFeePerGas : {NIL}, Nonce : {0},
     ChainID : {NIL}]

InitRetry ==
    /\ chainId = 1
    /\ env = EnvEmpty
    /\ nodeNonce \in NodeNonces
    /\ tx \in RetryIntents
    /\ txIn = tx
    /\ signed = NoTx
    /\ signErr = ""
    /\ receipt = NoReceipt
    /\ sendErr = ""
    /\ op = "none"
    /\ calls = <<>>
    /\ WaitIdle
    /\ Connected(chainId)
    /\ NoSession

\* SignTransaction failed; the caller passes the same *Transaction again
SignTransactionAgain ==
    /\ op = "SignTransaction"
    /\ signErr # ""
    /\ prev = NoPrev
    /\ \E out \in SignOutcomes(tx, NoAnswers, chainId, env, nodeNonce) :
          /\ tx' = out.tx
          /\ signed' = out.signed
          /\ signErr' = out.err
          /\ calls' = out.calls
    /\ txIn' = tx
    /\ prev' = [nil |-> FALSE, err |-> signErr, calls |-> calls]
    /\ UNCHANGED <<chainId, env, nodeNonce, receipt, sendErr, op, waitVars,
                   clientVars, inflight>>

NextRetry == SignTransactionCall \/ SignTransactionAgain

RetrySpec == InitRetry /\ [][NextRetry]_vars

----------------------------------------------------------------------------
(* State machine: two goroutines call SignTransaction on one client, each  *)
(* with its own intent for the client's account, and broadcast what they   *)
(* get. The client holds no lock and no nonce counter: the calls share the *)
(* node's pending nonce only, so a call is followed from one node call to  *)
(* the next around PendingNonceAt.                                         *)

Goroutines == {"g1", "g2"}

RaceIntents ==
    [From : {AccountAddr}, To : Recipients, Value : {1}, Data : {<<>>},
     GasLimit : {7}, GasPrice : {NIL, 25}, MaxFeePerGas : {NIL},
     MaxPriorityFeePerGas : {NIL}, Nonce : {0, 9}, ChainID : {NIL}]

Called(t) ==
    [pc |-> "called", txIn |-> t, tx |-> t, signed |-> NoTx, err |-> ""]

InitRace ==
    /\ chainId = 1
    /\ env = EnvEmpty
    /\ nodeNonce \in NodeNonces
    /\ tx = SampleIntent
    /\ txIn = tx
    /\ signed = NoTx
    /\ signErr = ""
    /\ receipt = NoReceipt
    /\ sendErr = ""
    /\ op = "none"
    /\ calls = <<>>
    /\ WaitIdle
    /\ Connected(chainId)
    /\ inflight \in [Goroutines -> {Called(t) : t \in RaceIntents}]
    /\ prev = NoPrev

\* node: the pending nonce of the sender once the node has taken stx
PendingAfter(nonces, stx) ==
    IF stx.Nonce = nonces[AccountAddr]
    THEN [nonces EXCEPT ![AccountAddr] = @ + 1]
    ELSE nonces

\* goroutine g enters SignTransaction and runs it up to the node's answer
\* to PendingNonceAt (no node call when the intent carries a nonce)
ReadNonce(g) ==
    /\ inflight[g].pc = "called"
    /\ \E a \in {Ok(0), Failed} :
          LET out == SignTransaction(inflight[g].tx,
                                     [NoAnswers EXCEPT !.nonce = a],
                                     chainId, env, nodeNonce)
          IN  /\ inflight' = [inflight EXCEPT ![g] =
                    [@ EXCEPT !.pc = IF out.need = "" THEN "returned"
                                     ELSE "signing",
                              !.tx = out.tx, !.err = out.err]]
              /\ calls' = out.calls
    /\ UNCHANGED <<signVars, op, waitVars, clientVars, prev>>

\* goroutine g runs the rest of SignTransaction: gas limit, fees, envelope,
\* signature (the nonce is in the intent by now)
FinishSigning(g) ==
    /\ inflight[g].pc = "signing"
    /\ \E out \in SignOutcomes(inflight[g].tx, NoAnswers, chainId, env,
                                nodeNonce) :
          /\ inflight' = [inflight EXCEPT ![g] =
                [@ EXCEPT !.pc = "returned", !.tx = out.tx,
                          !.signed = out.signed, !.err = out.err]]
          /\ calls' = out.calls
    /\ UNCHANGED <<signVars, op, waitVars, clientVars, prev>>

\* goroutine g broadcasts the transaction it was given
Broadcast(g) ==
    /\ inflight[g].pc = "returned"
    /\ inflight[g].signed # NoTx
    /\ \E a \in {Ok(0), Failed} :
          LET out == SendTransaction(inflight[g].signed, a)
          IN  /\ inflight' = [inflight EXCEPT ![g] =
                    [@ EXCEPT !.pc = "sent", !.err = out.err]]
              /\ nodeNonce' = IF a.st = "ok"
                              THEN PendingAfter(nodeNonce, inflight[g].signed)
                              ELSE nodeNonce
              /\ calls' = out.calls
    /\ UNCHANGED <<chainId, env, tx, txIn, signed, signErr, receipt, sendErr,
                   op, waitVars, clientVars, prev>>

NextRace ==
    \/ \E g \in Goroutines : ReadNonce(g)
    \/ \E g \in Goroutines : FinishSigning(g)
    \/ \E g \in Goroutines : Broadcast(g)

RaceSpec == InitRace /\ [][NextRace]_vars

----------------------------------------------------------------------------
(* Reading the node calls of the last operation *)

Answered(site) == \E i \in 1 .. Len(calls) : calls[i].site = site

CallAt(site) == calls[CHOOSE i \in 1 .. Len(calls) : calls[i].site = site]

AnswerOk(site) == Answered(site) /\ CallAt(site).ret.st = "ok"

\* the node's answers of the last SignTransaction, as the answers of a run
AnswersGiven ==
    [s \in Sites |-> IF Answered(s) THEN CallAt(s).ret ELSE Unused]

Signing == op = "SignTransaction"

Ceil(n, d) == (n + d - 1) \div d

BufferFor(t) ==
    IF Len(t.Data) = 0 THEN GasLimitBufferSimple(env)
    ELSE GasLimitBufferComplex(env)

\* fee computation got every node answer it asked for
FeesComputed ==
    /\ Signing
    /\ AnswerOk("feeHeader")
    /\ Answered("gasPrice") => AnswerOk("gasPrice")

\* SignTransaction went past fee computation to envelope construction
EnvelopeReached == Signing /\ signErr \in {"", ErrNoFees, ErrSign}

LegacySet(t) == t.GasPrice # NIL
PairSet(t) == t.MaxFeePerGas # NIL /\ t.MaxPriorityFeePerGas # NIL

----------------------------------------------------------------------------
(* C1: with an unset gas limit and a header gas limit H > 0, signing fails *)
(* with the gas-cap error whenever the buffered gas limit G is above       *)
(* floor(2H/3), and does not fail on the cap when G = floor(2H/3).         *)
C1_GasCap ==
    (Signing /\ txIn.GasLimit = 0 /\ AnswerOk("capHeader")
       /\ CallAt("capHeader").ret.val.GasLimit > 0)
    => LET H == CallAt("capHeader").ret.val.GasLimit
           G == tx.GasLimit
       IN  /\ G > (2 * H) \div 3 => signErr = ErrGasCap /\ signed = NoTx
           /\ G <= (2 * H) \div 3 => signErr # ErrGasCap
           /\ (G = (2 * H) \div 3 /\ FeesComputed
                 /\ signErr # ErrMaxFee) => signed # NoTx

C1_Witness ==
    /\ Signing /\ txIn.GasLimit = 0 /\ AnswerOk("capHeader")
    /\ CallAt("capHeader").ret.val.GasLimit > 0
    /\ tx.GasLimit = (2 * CallAt("capHeader").ret.val.GasLimit) \div 3 + 1
    /\ signErr = ErrGasCap

\* the boundary case of C1 happens: G = floor(2H/3) and signing succeeds
C1_BoundaryReached ==
    /\ Signing /\ txIn.GasLimit = 0 /\ AnswerOk("capHeader")
    /\ CallAt("capHeader").ret.val.GasLimit > 0
    /\ tx.GasLimit = (2 * CallAt("capHeader").ret.val.GasLimit) \div 3
    /\ signed # NoTx

(* C2: no signed transaction is returned when the intent's max fee per gas *)
(* after fee computation is above the configured ceiling; the error is     *)
(* 'max fee too high'; a max fee equal to the ceiling is accepted.         *)
C2_FeeCeiling ==
    Signing =>
      /\ signed # NoTx =>
            /\ tx.MaxFeePerGas <= MaxFeePerGas(env)
            /\ signed.GasFeeCap <= MaxFeePerGas(env)
      /\ (FeesComputed /\ tx.MaxFeePerGas > MaxFeePerGas(env))
            => signErr = ErrMaxFee /\ signed = NoTx
      /\ (FeesComputed /\ tx.MaxFeePerGas = MaxFeePerGas(env))
            => signErr = "" /\ signed # NoTx

C2_Witness ==
    /\ FeesComputed
    /\ txIn.MaxFeePerGas = NIL
    /\ tx.MaxFeePerGas > MaxFeePerGas(env)
    /\ signErr = ErrMaxFee

\* the boundary case of C2 happens: a computed max fee equal to the ceiling
C2_BoundaryReached ==
    /\ FeesComputed
    /\ txIn.MaxFeePerGas = NIL
    /\ tx.MaxFeePerGas = MaxFeePerGas(env)
    /\ signed # NoTx

(* C3: with a base fee B in the header and both fee-market fields unset,   *)
(* fee computation writes MaxPriorityFeePerGas = P and MaxFeePerGas =      *)
(* 2*B + P, P being the mainnet constant on chain 1, the Base constant on  *)
(* chain 8453 and the default constant on every other chain.               *)
C3_FeeMarketPricing ==
    (Signing /\ txIn.MaxFeePerGas = NIL /\ txIn.MaxPriorityFeePerGas = NIL
       /\ AnswerOk("feeHeader") /\ CallAt("feeHeader").ret.val.BaseFee # NIL)
    => LET B == CallAt("feeHeader").ret.val.BaseFee
           P == IF chainId = 1 THEN PriorityFeeMainnet(env)
                ELSE IF chainId = 8453 THEN PriorityFeeBase(env)
                ELSE PriorityFeeDefault(env)
       IN  /\ tx.MaxPriorityFeePerGas = P
           /\ tx.MaxFeePerGas = 2 * B + P

C3_Witness ==
    /\ Signing /\ txIn.MaxFeePerGas = NIL /\ txIn.MaxPriorityFeePerGas = NIL
    /\ AnswerOk("feeHeader") /\ CallAt("feeHeader").ret.val.BaseFee # NIL
    /\ chainId = 8453
    /\ signed # NoTx /\ signed.type = "dynamic"

(* C4 as stated: the gas limit written to the intent is                    *)
(* ceil(E * buffer), also when E * buffer is not an integer.               *)
C4_CeilingAsStated ==
    (Signing /\ txIn.GasLimit = 0 /\ AnswerOk("estimate"))
    => tx.GasLimit = Ceil(CallAt("estimate").ret.val * BufferFor(txIn),
                          BufferDen)

(* C4 amended: the gas limit written to the intent is ceil(E * buffer)     *)
(* when E * buffer is an integer and one less, floor(E * buffer), when it  *)
(* is not; the buffer is the simple one for an empty payload and the       *)
(* complex one otherwise.                                                  *)
C4_GasLimitBuffer ==
    (Signing /\ txIn.GasLimit = 0 /\ AnswerOk("estimate"))
    => LET product == CallAt("estimate").ret.val * BufferFor(txIn)
       IN  IF product % BufferDen = 0
           THEN tx.GasLimit = Ceil(product, BufferDen)
           ELSE tx.GasLimit = Ceil(product, BufferDen) - 1

C4_Witness ==
    /\ Signing /\ txIn.GasLimit = 0 /\ AnswerOk("estimate")
    /\ (CallAt("estimate").ret.val * BufferFor(txIn)) % BufferDen # 0
    /\ Len(txIn.Data) > 0
    /\ tx.GasLimit > CallAt("estimate").ret.val

(* C5: with no base fee in the header and an intent without gas price and  *)
(* fee-market fields, the node's suggested gas price becomes the intent's  *)
(* GasPrice, the fee-market fields stay unset, and the signed transaction  *)
(* is a legacy one carrying that price.                                    *)
C5_LegacyPricing ==
    (Signing /\ txIn.GasPrice = NIL /\ txIn.MaxFeePerGas = NIL
       /\ txIn.MaxPriorityFeePerGas = NIL
       /\ AnswerOk("feeHeader") /\ CallAt("feeHeader").ret.val.BaseFee = NIL)
    => /\ Answered("gasPrice")
       /\ AnswerOk("gasPrice") =>
            /\ tx.GasPrice = CallAt("gasPrice").ret.val
            /\ tx.MaxFeePerGas = NIL /\ tx.MaxPriorityFeePerGas = NIL
            /\ signErr = "" /\ signed # NoTx
            /\ signed.type = "legacy"
            /\ signed.GasPrice = CallAt("gasPrice").ret.val

C5_Witness ==
    /\ Signing /\ txIn.GasPrice = NIL /\ txIn.MaxFeePerGas = NIL
    /\ txIn.MaxPriorityFeePerGas = NIL
    /\ AnswerOk("feeHeader") /\ CallAt("feeHeader").ret.val.BaseFee = NIL
    /\ AnswerOk("gasPrice")
    /\ signed # NoTx /\ signed.type = "legacy" /\ signed.GasPrice = 2000

(* C6 as stated: for an intent with nonce zero, SignTransaction asks the   *)
(* node for the pending nonce of the connected signing account, whatever   *)
(* sender address the intent holds, and the intent and the signed          *)
(* transaction carry the value the node returned.                          *)
C6_NonceOfAccount ==
    (Signing /\ txIn.Nonce = 0)
    => /\ Answered("nonce")
       /\ CallAt("nonce").arg = AccountAddr
       /\ AnswerOk("nonce") =>
            /\ tx.Nonce = CallAt("nonce").ret.val
            /\ tx.Nonce = nodeNonce[AccountAddr]
            /\ signed # NoTx => signed.Nonce = nodeNonce[signed.sender]

(* C7 as stated: at envelope construction exactly one of {GasPrice} and    *)
(* {MaxFeePerGas and MaxPriorityFeePerGas} is set on the intent, and if    *)
(* neither is set the call fails with the missing-fee-specification error. *)
C7_ExactlyOneAsStated ==
    EnvelopeReached =>
      /\ LegacySet(tx) # PairSet(tx)
      /\ (~LegacySet(tx) /\ ~PairSet(tx)) => signErr = ErrNoFees

(* C7 amended: at envelope construction at least one of {GasPrice} and     *)
(* {MaxFeePerGas and MaxPriorityFeePerGas} is set on the intent (both when *)
(* the caller supplied a gas price and the pair is supplied or computed);  *)
(* the envelope is fee-market when the pair is set and legacy otherwise,   *)
(* and the missing-fee-specification error is not returned.                *)
C7_FeeSpecification ==
    EnvelopeReached =>
      /\ LegacySet(tx) \/ PairSet(tx)
      /\ signErr # ErrNoFees
      /\ signed # NoTx
      /\ PairSet(tx) => signed.type = "dynamic"
      /\ ~PairSet(tx) => signed.type = "legacy"

C7_Witness ==
    /\ EnvelopeReached
    /\ LegacySet(tx) /\ PairSet(tx)
    /\ txIn.MaxFeePerGas = NIL
    /\ signed # NoTx /\ signed.type = "dynamic"

(* C8: the envelope is built and signed under the chain id recorded at     *)
(* construction, and a run that differs only in the intent's ChainID field *)
(* and sees the same node answers returns the same signed transaction.     *)
C8_ChainIdIndependence ==
    Signing =>
      /\ signed # NoTx => signed.ChainID = chainId
      /\ \A c \in IntentChainIDs \cup ChainIds :
            LET other == SignTransaction([txIn EXCEPT !.ChainID = c],
                                         AnswersGiven, chainId, env,
                                         nodeNonce)
            IN  /\ other.need = ""
                /\ other.signed = signed
                /\ other.err = signErr
                /\ other.tx = [tx EXCEPT !.ChainID = c]

C8_Witness ==
    /\ Signing
    /\ txIn.ChainID # NIL /\ txIn.ChainID # chainId
    /\ signed # NoTx /\ signed.type = "dynamic" /\ signed.ChainID = chainId

(* C9: SendTransaction makes exactly one broadcast call; when the node     *)
(* accepts, it returns a provisional receipt (hash of the signed           *)
(* transaction, status 0, block number 0, sender the connected account,    *)
(* recipient the transaction's recipient); when the node rejects, it       *)
(* returns a wrapped error and no receipt.                                 *)
C9_Broadcast ==
    op = "SendTransaction" =>
      /\ Len(calls) = 1
      /\ calls[1].name = "SendTransaction"
      /\ calls[1].arg = signed
      /\ calls[1].ret.st = "ok" =>
            /\ sendErr = ""
            /\ receipt # NoReceipt
            /\ receipt.TxHash = Hash(signed)
            /\ receipt.Status = 0
            /\ receipt.BlockNumber = 0
            /\ receipt.From = AccountAddr
            /\ receipt.To = signed.To
      /\ calls[1].ret.st = "err" =>
            /\ sendErr = ErrSend
            /\ receipt = NoReceipt

C9_Witness ==
    /\ op = "SendTransaction"
    /\ sendErr = ""
    /\ receipt # NoReceipt
    /\ receipt.TxHash = Hash(signed)

Waiting == op = "WaitForTransaction"

WaitOutcome == <<wstate, wres, werr, lookups, calls>>
C10_ReturnIsFinal ==
    [][(wstate \in {"confirmed", "failed", "timed-out"})
         => (WaitOutcome' = WaitOutcome)]_vars

C11_PollerTimeout ==
    /\ [](wstate = "timed-out" =>
            /\ werr.msg = "transaction timeout"
            /\ werr.hash = AwaitedHash
            /\ wres = NoReceipt)
    /\ [](wstate \in {"confirmed", "failed"} => AnswerOk("receipt"))
    /\ (wstate = "waiting") ~> (wstate = "timed-out" \/ AnswerOk("receipt"))

C11_Witness ==
    /\ Waiting /\ wstate = "timed-out"
    /\ TransactionTimeoutSeconds(env) = 1
    /\ TransactionTickerSeconds(env) = 1
    /\ nodeReceipt = NoReceipt
    /\ lookups >= 1
    /\ werr = ErrTimeout(Hash(signed))

(* C12 as stated: during WaitForTransaction a failed receipt lookup is not *)
(* surfaced and the loop goes on to the next tick, whereas every failure   *)
(* of a transaction lookup made after the node returned a receipt is       *)
(* terminal: state failed, the wrapped lookup error, no further poll.      *)
C12_FailureClassification ==
    Waiting =>
      /\ (Answered("receipt") /\ ~AnswerOk("receipt")) =>
            /\ wstate = "waiting"
            /\ werr = NoErr /\ wres = NoReceipt
      /\ (AnswerOk("receipt")
            /\ \/ Answered("txByHash") /\ ~AnswerOk("txByHash")
               \/ Answered("finalTx") /\ ~AnswerOk("finalTx")) =>
            /\ wstate = "failed"
            /\ werr = ErrGetTx /\ wres = NoReceipt

Looking == op = "GetTransactionReceipt"

(* C13: when GetTransactionReceipt succeeds, the record it returns has the *)
(* hash, status, block number and gas used of the node's receipt, the      *)
(* address of the connected account as sender, whoever sent the            *)
(* transaction, and the destination of the looked-up transaction as        *)
(* recipient; when the receipt is found and the transaction lookup fails,  *)
(* it returns an error and no record.                                      *)
C13_ReceiptMapping ==
    Looking =>
      /\ returned.err = NoErr =>
            /\ AnswerOk("receipt") /\ AnswerOk("txByHash")
            /\ returned.receipt # NoReceipt
            /\ returned.receipt.TxHash = CallAt("receipt").ret.val.TxHash
            /\ returned.receipt.Status = CallAt("receipt").ret.val.Status
            /\ returned.receipt.BlockNumber
                  = CallAt("receipt").ret.val.BlockNumber
            /\ returned.receipt.GasUsed = CallAt("receipt").ret.val.GasUsed
            /\ returned.receipt.From = account.Address
            /\ returned.receipt.To = CallAt("txByHash").ret.val.To
      /\ (AnswerOk("receipt") /\ AnswerOk("txByHash")) => returned.err = NoErr
      /\ (AnswerOk("receipt") /\ ~AnswerOk("txByHash")) =>
            /\ Answered("txByHash")
            /\ returned.err = ErrGetTx
            /\ returned.receipt = NoReceipt

C13_Witness ==
    /\ Looking
    /\ returned.err = NoErr
    /\ returned.receipt.Status = 1 /\ returned.receipt.BlockNumber = 12
    /\ nodeTx.sender = OtherAddr /\ returned.receipt.From = AccountAddr
    /\ returned.receipt.To = "b2"

\* the other case of C13 happens: receipt found, transaction lookup failed
C13_LookupFailureReached ==
    /\ Looking
    /\ AnswerOk("receipt") /\ Answered("txByHash") /\ ~AnswerOk("txByHash")
    /\ returned.err = ErrGetTx

\* the fields of the client
ClientState == <<account, chainId, env, ctx, conn>>

(* C14: while the node has not mined the hash, every GetTransactionReceipt *)
(* call returns the not-found error and no record after a single receipt   *)
(* lookup and no transaction lookup, a call that follows another returns   *)
(* what the previous one returned, and no call changes the client's        *)
(* account, chain id, configuration or connection.                         *)
C14_ReceiptIdempotence ==
    /\ []((Looking /\ nodeReceipt = NoReceipt) =>
            /\ returned = [receipt |-> NoReceipt, err |-> ErrNotFound]
            /\ Len(calls) = 1
            /\ calls[1].name = "TransactionReceipt"
            /\ calls[1].arg = Hash(nodeTx))
    /\ [][GetTransactionReceiptCall => (ClientState' = ClientState)]_vars
    /\ [][(GetTransactionReceiptCall /\ Looking /\ nodeReceipt = NoReceipt)
            => (returned' = returned /\ calls' = calls)]_vars

C14_Witness ==
    /\ Looking /\ reps >= 2
    /\ nodeReceipt = NoReceipt
    /\ returned.err = ErrNotFound
    /\ conn = OpenConn

C15_FeeHeaderFailureReached ==
    /\ Signing
    /\ AnswerOk("capHeader")
    /\ Answered("feeHeader") /\ ~AnswerOk("feeHeader")
    /\ signErr = ErrHeader

(* C16: calling Close again has the effect of calling it once: the node    *)
(* connection is released exactly once, every Close leaves the client      *)
(* without context and with the connection closed and returns nothing,     *)
(* and a Close after a Close changes no field of the client.               *)
C16_CloseIdempotence ==
    /\ [](conn.released <= 1)
    /\ [](op = "Close" =>
            /\ ctx = "nil"
            /\ conn.state = "closed" /\ conn.released = 1
            /\ returned = NoRet)
    /\ [][(CloseCall /\ op = "Close")
            => (ClientState' = ClientState /\ returned' = returned)]_vars

C16_Witness ==
    /\ op = "Close" /\ reps >= 2
    /\ ctx = "nil"
    /\ conn.state = "closed" /\ conn.released = 1

\* the value of a gas buffer variable when it is a number within
\* [0.5, 3.0], the default otherwise
BufferOr(v, default) ==
    IF v.set /\ v.ok /\ v.val >= 50 /\ v.val <= 300 THEN v.val ELSE default

(* C17 as stated: GasLimitBufferSimple returns the value of the variable   *)
(* ETH_GAS_LIMIT_BUFFER_SIMPLE when it is a number within [0.5, 3.0] and   *)
(* 1.1 when it is unset, unparsable or out of range;                       *)
(* GasLimitBufferComplex does the same with ETH_GAS_LIMIT_BUFFER_COMPLEX   *)
(* and 1.2; neither depends on the other's variable.                       *)
C17_GasBufferConfiguration ==
    /\ op = "GasLimitBufferSimple" =>
          /\ returned = BufferOr(env[docGasLimitBufferSimple], 110)
          /\ \A v \in BufferValues :
                GasLimitBufferSimple(
                    [env EXCEPT ![docGasLimitBufferComplex] = v]) = returned
    /\ op = "GasLimitBufferComplex" =>
          /\ returned = BufferOr(env[docGasLimitBufferComplex], 120)
          /\ \A v \in BufferValues :
                GasLimitBufferComplex(
                    [env EXCEPT ![docGasLimitBufferSimple] = v]) = returned

\* the value of a polling variable when it is a positive integer, the
\* default otherwise
PositiveOr(v, default) ==
    IF v.set /\ v.ok /\ v.val > 0 THEN v.val ELSE default

(* C18: TransactionTimeoutSeconds and TransactionTickerSeconds return the  *)
(* configured value when it is a positive integer and 300 and 3 otherwise, *)
(* so in every environment waitForTransaction starts with a strictly       *)
(* positive timeout and a strictly positive interval.                      *)
C18_PollerConfiguration ==
    /\ op = "TransactionTimeoutSeconds" =>
          returned = PositiveOr(env[envTransactionTimeoutSeconds], 300)
    /\ op = "TransactionTickerSeconds" =>
          returned = PositiveOr(env[envTransactionTickerSeconds], 3)
    /\ op = "waitForTransaction" =>
          /\ returned.timeout > 0
          /\ returned.tickerInterval > 0
          /\ returned.timeout
                = PositiveOr(env[envTransactionTimeoutSeconds], 300)
          /\ returned.tickerInterval
                = PositiveOr(env[envTransactionTickerSeconds], 3)

C18_Witness ==
    /\ op = "waitForTransaction"
    /\ env[envTransactionTimeoutSeconds] = Garbage
    /\ env[envTransactionTickerSeconds] = Str(0)
    /\ returned = [timeout |-> 300, tickerInterval |-> 3]

\* the other case of C18 happens: both values are configured and used
C18_ConfiguredReached ==
    /\ op = "waitForTransaction"
    /\ env[envTransactionTimeoutSeconds] = Str(7)
    /\ env[envTransactionTickerSeconds] = Str(1)
    /\ returned = [timeout |-> 7, tickerInterval |-> 1]

Constructing == op = "NewGhostClient"

ValidAccount ==
    /\ account.PrivateKey /\ account.PublicKey
    /\ account.Address # ZeroAddr
    /\ account.ChainId # 0

C19_MismatchReached ==
    /\ Constructing
    /\ ValidAccount
    /\ AnswerOk("chainID") /\ CallAt("chainID").ret.val # account.ChainId
    /\ ~returned.client

C19_NoPublicKeyReached ==
    /\ Constructing
    /\ account.PrivateKey /\ ~account.PublicKey
    /\ account.Address # ZeroAddr /\ account.ChainId # 0
    /\ returned.err = ErrPublicKey /\ calls = <<>>

\* the intent had nonce, gas limit and fees all unset
AllUnset ==
    /\ Signing
    /\ txIn.Nonce = 0 /\ txIn.GasLimit = 0
    /\ txIn.GasPrice = NIL
    /\ txIn.MaxFeePerGas = NIL /\ txIn.MaxPriorityFeePerGas = NIL

CallOrder == <<"nonce", "estimate", "capHeader", "feeHeader", "gasPrice">>

C20_EstimateFailureReached ==
    /\ AllUnset
    /\ Len(calls) = 2 /\ calls[2].site = "estimate"
    /\ calls[2].ret.st = "err"
    /\ signErr = ErrEstimateGas

(* C21 as stated: on the same intent and the same node answers the pkg     *)
(* client (ethereumClient) and the eth client (ghostClient) end            *)
(* SignTransaction alike: the same values written to the intent, the same  *)
(* signed transaction or error, after the same node calls; in particular   *)
(* neither crashes when the header has no base fee and the fee-market      *)
(* fields are unset.                                                       *)
C21_ClientEquivalence ==
    Signing =>
      LET other == ethereumClient_SignTransaction(txIn, AnswersGiven,
                                                  chainId, env, nodeNonce)
      IN  /\ other.need = ""
          /\ other.err # ErrPanic
          /\ other.tx = tx
          /\ other.signed = signed
          /\ other.err = signErr
          /\ other.calls = calls

\* the two clients differ on no other input: C21 holds wherever the header
\* has a base fee or the intent carries a priority fee
C21_AgreeElsewhere ==
    (/\ Signing
     /\ ~(/\ AnswerOk("feeHeader")
          /\ CallAt("feeHeader").ret.val.BaseFee = NIL
          /\ txIn.MaxPriorityFeePerGas = NIL))
    => LET other == ethereumClient_SignTransaction(txIn, AnswersGiven,
                                                   chainId, env, nodeNonce)
       IN  /\ other.need = ""
           /\ other.tx = tx
           /\ other.signed = signed
           /\ other.err = signErr
           /\ other.calls = calls

\* the legacy-network call on which the eth client signs a legacy
\* transaction and the pkg client panics
C21_PanicReached ==
    /\ Signing /\ AllUnset /\ signed # NoTx /\ signed.type = "legacy"
    /\ ethereumClient_SignTransaction(txIn, AnswersGiven, chainId, env,
                                      nodeNonce).err = ErrPanic

(* C26: with the buffers as rationals (hundredths), the gas limit written  *)
(* for an estimate E is floor(E * buffer): it never exceeds E * buffer,    *)
(* and the next integer does; the product is never rounded up.             *)
C26_BufferTruncation ==
    (Signing /\ txIn.GasLimit = 0 /\ AnswerOk("estimate"))
    => LET product == CallAt("estimate").ret.val * BufferFor(txIn)
       IN  /\ tx.GasLimit * BufferDen <= product
           /\ product < (tx.GasLimit + 1) * BufferDen

\* a product with a fractional part of one half or more, truncated
C26_Witness ==
    /\ Signing /\ txIn.GasLimit = 0 /\ AnswerOk("estimate")
    /\ LET product == CallAt("estimate").ret.val * BufferFor(txIn)
       IN  /\ 2 * (product % BufferDen) >= BufferDen
           /\ tx.GasLimit * BufferDen < product

(* C22: SignTransaction calls are not serialized. Two calls for the same   *)
(* account that enter with the nonce unset and both get the node's answer  *)
(* before either transaction is broadcast, whether they overlap or run one *)
(* after the other, are given the same pending nonce, and the signed       *)
(* transactions they return carry that same nonce.                         *)
NonceRead(g) ==
    /\ inflight[g].txIn.Nonce = 0
    /\ inflight[g].pc \in {"signing", "returned"}
    /\ inflight[g].err # ErrNonce

NothingBroadcast == \A g \in DOMAIN inflight : inflight[g].pc # "sent"

C22_NonceRace ==
    \A g, h \in DOMAIN inflight :
        (g # h /\ NothingBroadcast /\ NonceRead(g) /\ NonceRead(h))
        => /\ inflight[g].tx.Nonce = nodeNonce[AccountAddr]
           /\ inflight[h].tx.Nonce = inflight[g].tx.Nonce
           /\ (inflight[g].signed # NoTx /\ inflight[h].signed # NoTx)
              => inflight[g].signed.Nonce = inflight[h].signed.Nonce

\* both calls have returned a signed transaction, with one nonce
C22_Witness ==
    /\ inflight # NoCalls
    /\ NothingBroadcast
    /\ \A g \in Goroutines :
          /\ NonceRead(g)
          /\ inflight[g].pc = "returned"
          /\ inflight[g].signed # NoTx
    /\ inflight["g1"].signed.Nonce = inflight["g2"].signed.Nonce

\* the two calls overlap: both have the node's answer and neither has
\* returned
C22_OverlapReached ==
    /\ inflight # NoCalls
    /\ \A g \in Goroutines : NonceRead(g) /\ inflight[g].pc = "signing"
    /\ inflight["g1"].tx.Nonce = inflight["g2"].tx.Nonce

\* the collision at broadcast time: both transactions carry one nonce, the
\* node took the first and refused the second
C22_CollisionReached ==
    /\ inflight # NoCalls
    /\ \A g \in Goroutines : inflight[g].pc = "sent"
    /\ inflight["g1"].signed.Nonce = inflight["g2"].signed.Nonce
    /\ inflight["g1"].err = ""
    /\ inflight["g2"].err = ErrSend

\* a caller that broadcasts before the other call starts leaves it the next
\* nonce
C22_SerializedReached ==
    /\ inflight # NoCalls
    /\ \A g \in Goroutines :
          inflight[g].txIn.Nonce = 0 /\ inflight[g].signed # NoTx
    /\ inflight["g1"].signed.Nonce + 1 = inflight["g2"].signed.Nonce

(* C27: a gas limit that failed the cap check stays in the intent. When    *)
(* SignTransaction fails with the cap error, the buffered value over the   *)
(* cap is in the intent's GasLimit; a second SignTransaction on the same   *)
(* intent asks for no estimate and no cap-check header, cannot fail with   *)
(* the cap error, and when its fee computation succeeds returns a signed   *)
(* transaction with that gas limit, above two thirds of the block gas      *)
(* limit the first call had seen.                                          *)
PrevCallAt(site) ==
    prev.calls[CHOOSE i \in 1 .. Len(prev.calls) : prev.calls[i].site = site]

MaxGasOf(header) == (header.GasLimit * 2) \div 3

RetriedAfterCapError == Signing /\ ~prev.nil /\ prev.err = ErrGasCap

C27_GasCapBypass ==
    /\ (Signing /\ signErr = ErrGasCap)
       => /\ tx.GasLimit = Buffered(CallAt("estimate").ret.val,
                                    BufferFor(txIn))
          /\ tx.GasLimit > MaxGasOf(CallAt("capHeader").ret.val)
    /\ RetriedAfterCapError
       => /\ txIn.GasLimit > MaxGasOf(PrevCallAt("capHeader").ret.val)
          /\ ~Answered("estimate")
          /\ ~Answered("capHeader")
          /\ signErr \notin {ErrEstimateGas, ErrGasCap}
          /\ tx.GasLimit = txIn.GasLimit
          /\ (signErr = "")
             => /\ signed # NoTx
                /\ signed.Gas = txIn.GasLimit
                /\ signed.Gas > MaxGasOf(PrevCallAt("capHeader").ret.val)
          /\ (AnswerOk("feeHeader") /\ (Answered("gasPrice")
                                         => AnswerOk("gasPrice"))
              /\ signErr # ErrMaxFee)
             => signErr = ""

\* the second call returned a signed transaction over the cap, and the
\* header it read for the fees shows the same block gas limit
C27_Witness ==
    /\ RetriedAfterCapError
    /\ signed # NoTx
    /\ AnswerOk("feeHeader")
    /\ CallAt("feeHeader").ret.val = PrevCallAt("capHeader").ret.val
    /\ signed.Gas > MaxGasOf(CallAt("feeHeader").ret.val)

(* C23: every WaitForTransaction call ends, given that node calls return   *)
(* and the timers fire: a waiting call eventually returns, in exactly one  *)
(* of confirmed (a receipt, no error), timed-out (the timeout error, no    *)
(* receipt) and failed (the lookup error, no receipt); once the timeout    *)
(* timer has fired the loop ends even when tick and timeout are ready      *)
(* together; a call that has returned makes no further receipt lookup.     *)
Returned == wstate \in {"confirmed", "timed-out", "failed"}

OneOutcome ==
    /\ wstate = "waiting" => wres = NoReceipt /\ werr = NoErr
    /\ wstate = "confirmed" => wres # NoReceipt /\ werr = NoErr
    /\ wstate = "timed-out"
          => wres = NoReceipt /\ werr = ErrTimeout(AwaitedHash)
    /\ wstate = "failed" => wres = NoReceipt /\ werr = ErrGetTx

C23_Termination ==
    /\ (wstate = "waiting") ~> Returned
    /\ []OneOutcome
    /\ [][Returned => (wstate' = wstate /\ lookups' = lookups)]_vars

\* the call timed out after a poll, with a tick waiting beside the timeout
C23_Witness ==
    /\ wstate = "timed-out"
    /\ lookups >= 1
    /\ timeoutReady /\ tickReady

\* the loop has taken a tick although the timeout was ready, and polls on
C23_TickOverTimeoutReached ==
    /\ wstate = "waiting"
    /\ TransactionTimeoutSeconds(env) = TransactionTickerSeconds(env)
    /\ lookups >= 1
    /\ now = TransactionTimeoutSeconds(env) + MaxCallSeconds
    /\ timeoutReady /\ tickReady

(* C24: what the caller supplies is used as it is. An intent with a        *)
(* non-zero nonce is signed with that nonce and no pending-nonce query is  *)
(* made; an intent with a non-zero gas limit is signed with exactly that   *)
(* gas limit: no gas estimate is asked, no buffer is applied and no cap    *)
(* check is made.                                                          *)
C24_SuppliedNonceAndGasLimit ==
    /\ (Signing /\ txIn.Nonce # 0)
       => /\ ~Answered("nonce")
          /\ signErr # ErrNonce
          /\ tx.Nonce = txIn.Nonce
          /\ signed # NoTx => signed.Nonce = txIn.Nonce
    /\ (Signing /\ txIn.GasLimit # 0)
       => /\ ~Answered("estimate")
          /\ ~Answered("capHeader")
          /\ signErr \notin {ErrEstimateGas, ErrGasCap}
          /\ tx.GasLimit = txIn.GasLimit
          /\ signed # NoTx => signed.Gas = txIn.GasLimit

\* a supplied nonce and a supplied gas limit over the cap of the header the
\* call read, signed as they are
C24_Witness ==
    /\ Signing /\ txIn.Nonce # 0 /\ txIn.GasLimit # 0
    /\ signed # NoTx
    /\ signed.Nonce # nodeNonce[txIn.From]
    /\ CallAt("feeHeader").ret.val.GasLimit > 0
    /\ signed.Gas > MaxGasOf(CallAt("feeHeader").ret.val)

(* C25: a complete fee pair supplied by the caller is not recomputed. With *)
(* MaxFeePerGas and MaxPriorityFeePerGas both set, the fee computation     *)
(* runs (the header is fetched) and leaves both as they are whatever the   *)
(* base fee; when it gets its node answers and the supplied max fee is     *)
(* within the ceiling, the signed transaction is a fee-market transaction  *)
(* with exactly the supplied max fee and priority fee.                     *)
C25_SuppliedFeePair ==
    (Signing /\ PairSet(txIn))
    => /\ signErr \notin {ErrNonce, ErrEstimateGas, ErrGasCap}
          => Answered("feeHeader")
       /\ tx.MaxFeePerGas = txIn.MaxFeePerGas
       /\ tx.MaxPriorityFeePerGas = txIn.MaxPriorityFeePerGas
       /\ (FeesComputed /\ ~TooHigh(txIn.MaxFeePerGas, MaxFeePerGas(env)))
          => /\ signed # NoTx
             /\ signed.type = "dynamic"
             /\ signed.GasFeeCap = txIn.MaxFeePerGas
             /\ signed.GasTipCap = txIn.MaxPriorityFeePerGas

\* a supplied pair kept on a header whose base fee would have given other
\* values
C25_Witness ==
    /\ Signing /\ PairSet(txIn) /\ signed # NoTx
    /\ AnswerOk("feeHeader")
    /\ LET header == CallAt("feeHeader").ret.val
       IN  /\ header.BaseFee # NIL
           /\ header.BaseFee * 2 + getFixedPriorityFee(chainId, env)
                # signed.GasFeeCap
           /\ getFixedPriorityFee(chainId, env) # signed.GasTipCap

\* on a header without base fee the supplied pair still costs a gas price
\* call, and its failure fails the signing
C25_GasPriceFailureReached ==
    /\ Signing /\ PairSet(txIn)
    /\ ~TooHigh(txIn.MaxFeePerGas, MaxFeePerGas(env))
    /\ signErr = ErrGasPrice

(* C28: a caller's gas price on a fee-market network is set aside. When    *)
(* the intent has GasPrice and lacks at least one fee-market field, and    *)
(* the header has a base fee B, the fee computation writes P and 2B + P    *)
(* over both fee-market fields (a single supplied one is lost), asks for   *)
(* no gas price and leaves GasPrice in the intent; unless 2B + P is over   *)
(* the ceiling, the call returns a fee-market transaction with P and       *)
(* 2B + P that does not carry the caller's gas price.                      *)
C28_GasPriceOnFeeMarket ==
    (/\ Signing
     /\ txIn.GasPrice # NIL
     /\ ~PairSet(txIn)
     /\ AnswerOk("feeHeader")
     /\ CallAt("feeHeader").ret.val.BaseFee # NIL)
    => LET P == getFixedPriorityFee(chainId, env)
           maxFee == CallAt("feeHeader").ret.val.BaseFee * 2 + P
       IN  /\ tx.MaxPriorityFeePerGas = P
           /\ tx.MaxFeePerGas = maxFee
           /\ tx.GasPrice = txIn.GasPrice
           /\ ~Answered("gasPrice")
           /\ signErr = IF TooHigh(maxFee, MaxFeePerGas(env)) THEN ErrMaxFee
                        ELSE ""
           /\ signErr = ""
              => /\ signed # NoTx
                 /\ signed.type = "dynamic"
                 /\ signed.GasTipCap = P
                 /\ signed.GasFeeCap = maxFee
                 /\ signed.GasPrice = NIL

\* a gas price and a max fee supplied, the max fee lost to the computed one
C28_Witness ==
    /\ Signing /\ txIn.GasPrice # NIL
    /\ txIn.MaxFeePerGas # NIL /\ txIn.MaxPriorityFeePerGas = NIL
    /\ signed # NoTx /\ signed.type = "dynamic"
    /\ signed.GasFeeCap # txIn.MaxFeePerGas
    /\ tx.GasPrice = txIn.GasPrice

(* C29: legacy pricing has no ceiling. When MaxFeePerGas is unset after    *)
(* the fee computation, validateFees accepts the intent whatever the gas   *)
(* price, suggested by the node or supplied by the caller: the call does   *)
(* not fail with the excessive-fee error and signs a legacy transaction    *)
(* with that gas price.                                                    *)
C29_NoLegacyCeiling ==
    (FeesComputed /\ tx.MaxFeePerGas = NIL
                  /\ signErr \notin {ErrNonce, ErrEstimateGas, ErrGasCap})
    => /\ signErr # ErrMaxFee
       /\ LegacySet(tx)
          => /\ signErr = ""
             /\ signed # NoTx
             /\ signed.type = "legacy"
             /\ signed.GasPrice = tx.GasPrice

\* a caller's gas price over the ceiling, signed
C29_Witness ==
    /\ Signing /\ txIn.GasPrice # NIL
    /\ signed # NoTx /\ signed.type = "legacy"
    /\ TooHigh(signed.GasPrice, MaxFeePerGas(env))

\* the node's suggestion over the ceiling, signed
C29_SuggestedReached ==
    /\ Signing /\ txIn.GasPrice = NIL /\ AnswerOk("gasPrice")
    /\ signed # NoTx /\ signed.type = "legacy"
    /\ TooHigh(signed.GasPrice, MaxFeePerGas(env))

(* C30: the first poll waits one interval. WaitForTransaction makes no     *)
(* receipt lookup before the first tick, one interval after the call, and  *)
(* no more lookups than ticks have fired; when the timeout is shorter than *)
(* the interval it makes no lookup at all and returns the timeout error,   *)
(* also for a transaction that is already mined.                           *)
C30_FirstPollDelayed ==
    (wstate # "idle")
    => /\ lookups * TransactionTickerSeconds(env) <= now
       /\ TransactionTimeoutSeconds(env) < TransactionTickerSeconds(env)
          => /\ lookups = 0
             /\ wstate \in {"waiting", "timed-out"}
             /\ wres = NoReceipt

\* a mined transaction, a timeout shorter than the interval: the call has
\* timed out without one lookup
C30_Witness ==
    /\ TransactionTimeoutSeconds(env) < TransactionTickerSeconds(env)
    /\ nodeReceipt # NoReceipt
    /\ wstate = "timed-out"
    /\ lookups = 0

\* the transaction is mined before WaitForTransaction is called
C30_MinedBeforeReached ==
    /\ wstate = "idle"
    /\ nodeReceipt # NoReceipt
    /\ TransactionTimeoutSeconds(env) <= TransactionTickerSeconds(env)

\* timeout equal to the interval, a mined transaction: the select took the
\* tick and the one lookup confirmed it
C30_EqualConfirmedReached ==
    /\ TransactionTimeoutSeconds(env) = TransactionTickerSeconds(env)
    /\ wstate = "confirmed"
    /\ lookups = 1
    /\ timeoutReady

\* timeout equal to the interval, a mined transaction: the select took the
\* timeout, with the tick ready beside it
C30_EqualTimedOutReached ==
    /\ TransactionTimeoutSeconds(env) = TransactionTickerSeconds(env)
    /\ nodeReceipt # NoReceipt
    /\ wstate = "timed-out"
    /\ lookups = 0
    /\ tickReady

====
